---------------------------- MODULE Spec2Model ----------------------------
(***************************************************************************)
(* A model of the pgstudio desktop client: the connection store, the       *)
(* object-tree sidebar, the top bar, the table editor and the row-delete   *)
(* predicate builder, together with the database server they talk to.      *)
(*                                                                         *)
(* Data returned by the server is abstracted by its provenance: the        *)
(* connection and the server-side current database under which the call    *)
(* was executed.                                                           *)
(***************************************************************************)
EXTENDS Integers, Sequences, FiniteSets, TLC

\* ------------------------------------------------------------------ bounds

\* Number of handler invocations that may be suspended on an await at once.
MaxTasks == 2
\* Number of user events (clicks) in one run.
MaxOps == 5
\* The table editor offers pages 0..MaxPage and this many page sizes.
MaxPage == 1
PageSizeCount == 2
\* Largest number of columns of a displayed result.
MaxCols == 3
\* Number of times a host replaces the rows of a grid.
MaxSnapshots == 2

\* ------------------------------------------------------------- value space

Conns == {"A", "B"}
Dbs == {"sales", "reporting"}
\* The databases that exist on the server behind each saved connection.
DbsOf(c) == IF c = "A" THEN Dbs ELSE {"sales"}
Schemas == {"public"}
Tables == {"orders"}
Null == "null"

\* The database named by a saved connection profile (ConnectionRecord.database).
ProfileDb(c) == "sales"

\* Provenance of a server result: the connection and database it was read from.
Tag(c, d) == [c |-> c, d |-> d]
\* An empty list ([]) and a missing value (null / undefined).
EmptyTag == [c |-> "empty", d |-> "empty"]
NullTag == [c |-> Null, d |-> Null]
Absent == [c |-> "absent", d |-> "absent"]

\* ------------------------------------------------------------------- state

VARIABLES
    connections,   \* store.connections: the saved profiles
    store,         \* activeConnectionId, connectedIds, connectionData
    srv,           \* the server: live sessions and each one's current database
    tasks,         \* suspended handler invocations (closure + awaited calls)
    ops,           \* user events so far
    expanded,      \* sidebar: expandedConnections / Databases / Schemas
    treeData,      \* sidebar: cached databases / schemas / tables
    loading,       \* sidebar: spinners
    errors,        \* sidebar: per-node error messages
    tabs,          \* table editor: the open table tabs
    activeTabId,   \* table editor: the tab shown
    tree,          \* table editor: expanded nodes and loaded lists of its explorer
    executed,      \* server: the row DELETEs executed, with the snapshot they came from
    dropped,       \* server: the tables DROP TABLE removed, by connection and database
    grid,          \* data grid: the columns and rows of the result it shows
    deletes,       \* the DELETE statements handleDeleteRows handed to executeQuery
    edit,          \* data grid: selected, editedCells, editingCell, isSaving, saveError
    host           \* data grid: what its host passes in and receives from it

storeVars == <<connections, store>>
sidebarVars == <<expanded, treeData, loading, errors>>
gridVars == <<grid, deletes, edit, host>>
editorVars == <<tabs, activeTabId, tree, executed, dropped, gridVars>>
vars == <<connections, store, srv, tasks, ops, expanded, treeData, loading, errors,
          tabs, activeTabId, tree, executed, dropped, grid, deletes, edit, host>>

\* ------------------------------------------------------- connection store

emptyConnectionData ==
    [databases |-> EmptyTag, activeDatabase |-> Null, schemas |-> EmptyTag,
     tables |-> [s \in {} |-> EmptyTag], schemaContext |-> NullTag]

NoPending == [connectionId |-> Null, schema |-> Null, table |-> Null]

StoreInit ==
    [activeConnectionId |-> Null, connectedIds |-> <<>>,
     connectionData |-> [c \in {} |-> emptyConnectionData],
     pendingTable |-> NoPending]

Range(seq) == {seq[i] : i \in 1..Len(seq)}

includes(seq, x) == x \in Range(seq)

filterOut(seq, x) == SelectSeq(seq, LAMBDA y : y # x)

\* Object spread { ...f, [k]: v }.
Put(f, k, v) == [x \in (DOMAIN f) \cup {k} |-> IF x = k THEN v ELSE f[x]]

\* delete f[k].
Del(f, k) == [x \in (DOMAIN f) \ {k} |-> f[x]]

setActiveConnection(st, id) == [st EXCEPT !.activeConnectionId = id]

\* A connectTo that appends the id even when it is already connected.
connectToAlwaysAppends(st, id) ==
    [st EXCEPT
       !.activeConnectionId = id,
       !.connectedIds = Append(st.connectedIds, id),
       !.connectionData = IF includes(st.connectedIds, id) THEN st.connectionData
                          ELSE Put(st.connectionData, id, emptyConnectionData)]

connectTo(st, id) ==
    LET alreadyConnected == includes(st.connectedIds, id)
    IN [st EXCEPT
          !.activeConnectionId = id,
          !.connectedIds = IF alreadyConnected THEN st.connectedIds
                           ELSE Append(st.connectedIds, id),
          !.connectionData = IF alreadyConnected THEN st.connectionData
                             ELSE Put(st.connectionData, id, emptyConnectionData)]

\* disconnectFrom leaving no connection active when the active one goes.
disconnectFromClearsActive(st, id) ==
    [st EXCEPT
       !.activeConnectionId = IF st.activeConnectionId = id THEN Null
                              ELSE st.activeConnectionId,
       !.connectedIds = filterOut(st.connectedIds, id),
       !.connectionData = Del(st.connectionData, id)]

\* disconnectFrom taking the next active connection from the old list.
disconnectFromOldFirst(st, id) ==
    LET newConnectedIds == filterOut(st.connectedIds, id)
        newActive == IF st.activeConnectionId = id
                     THEN IF Len(st.connectedIds) > 0 THEN st.connectedIds[1] ELSE Null
                     ELSE st.activeConnectionId
    IN [st EXCEPT
          !.activeConnectionId = newActive,
          !.connectedIds = newConnectedIds,
          !.connectionData = Del(st.connectionData, id)]

disconnectFrom(st, id) ==
    LET newConnectedIds == filterOut(st.connectedIds, id)
        newActive == IF st.activeConnectionId = id
                     THEN IF Len(newConnectedIds) > 0 THEN newConnectedIds[1] ELSE Null
                     ELSE st.activeConnectionId
    IN [st EXCEPT
          !.activeConnectionId = newActive,
          !.connectedIds = newConnectedIds,
          !.connectionData = Del(st.connectionData, id)]

isConnectedTo(st, id) == includes(st.connectedIds, id)

\* Per-connection setters that create the record of a connection without one.
setConnectionFieldCreates(st, connId, field, v) ==
    [st EXCEPT !.connectionData =
        Put(@, connId, [(IF connId \in DOMAIN @ THEN @[connId] ELSE emptyConnectionData)
                           EXCEPT ![field] = v])]

\* The per-connection setters: a no-op when the connection has no data record.
setConnectionField(st, connId, field, v) ==
    IF connId \notin DOMAIN st.connectionData THEN st
    ELSE [st EXCEPT !.connectionData[connId][field] = v]

setConnectionDatabases(st, connId, databases) ==
    setConnectionField(st, connId, "databases", databases)

setConnectionActiveDatabase(st, connId, db) ==
    setConnectionField(st, connId, "activeDatabase", db)

setConnectionSchemas(st, connId, schemas) ==
    setConnectionField(st, connId, "schemas", schemas)

setConnectionSchemaContext(st, connId, ctx) ==
    setConnectionField(st, connId, "schemaContext", ctx)

setConnectionTables(st, connId, schema, tables) ==
    IF connId \notin DOMAIN st.connectionData THEN st
    ELSE [st EXCEPT !.connectionData[connId].tables = Put(@, schema, tables)]

\* The active-connection setters write to connectionData[activeConnectionId].
setDatabases(st, databases) ==
    setConnectionDatabases(st, st.activeConnectionId, databases)

setActiveDatabase(st, db) ==
    setConnectionActiveDatabase(st, st.activeConnectionId, db)

setSchemas(st, schemas) ==
    setConnectionSchemas(st, st.activeConnectionId, schemas)

setSchemaContext(st, ctx) ==
    setConnectionSchemaContext(st, st.activeConnectionId, ctx)

setTables(st, schema, tables) ==
    setConnectionTables(st, st.activeConnectionId, schema, tables)

setPendingTable(st, pending) == [st EXCEPT !.pendingTable = pending]

reset(st) == StoreInit

useIsConnected(st) ==
    Len(st.connectedIds) > 0 /\ st.activeConnectionId # Null

useActiveDatabase(st) ==
    IF st.activeConnectionId \in DOMAIN st.connectionData
    THEN st.connectionData[st.activeConnectionId].activeDatabase
    ELSE Null

\* ------------------------------------------------------------------ server

\* A call's result as the awaiting handler sees it.
Pending == [st |-> "pending", v |-> NullTag]
Err == [st |-> "err", v |-> NullTag]
Ok(v) == [st |-> "ok", v |-> v]

ReadCalls ==
    {"getDatabases", "getSchemas", "getFullSchema", "getTables", "getTableData",
     "executeQuery", "getColumns", "getIndexes"}

SrvInit ==
    [connected |-> {}, db |-> [c \in Conns |-> ProfileDb(c)],
     lastSwitch |-> [c \in Conns |-> Null]]

\* The server executes call k of a session-bound request for connection c
\* (target database d) and answers it; ok chooses success or failure.
SrvState(k, c, d, ok) ==
    CASE k = "connect" /\ ok ->
            [connected |-> srv.connected \cup {c},
             db |-> [srv.db EXCEPT ![c] = ProfileDb(c)],
             lastSwitch |-> [srv.lastSwitch EXCEPT ![c] = Null]]
      [] k = "disconnect" /\ ok ->
            [connected |-> srv.connected \ {c},
             db |-> [srv.db EXCEPT ![c] = ProfileDb(c)],
             lastSwitch |-> [srv.lastSwitch EXCEPT ![c] = Null]]
      [] k = "switchDatabase" /\ ok ->
            [srv EXCEPT !.db[c] = d, !.lastSwitch[c] = d]
      [] OTHER -> srv

SrvCanSucceed(k, c) == k = "connect" \/ c \in srv.connected

SrvAnswer(k, c, ok) ==
    IF ~ok THEN Err
    ELSE IF k \in ReadCalls THEN Ok(Tag(c, srv.db[c]))
    ELSE Ok(NullTag)

\* ------------------------------------------------------------------- tasks

NoCl == [had |-> FALSE, t1 |-> Absent, t2 |-> Absent]

Idle ==
    [h |-> "idle", c |-> Null, d |-> Null, s |-> Null,
     aw |-> [k \in {} |-> Pending], cl |-> NoCl]

Task(h, c, d, s, calls, cl) ==
    [h |-> h, c |-> c, d |-> d, s |-> s, aw |-> [k \in calls |-> Pending], cl |-> cl]

TaskIds == 1..MaxTasks

FreeSlots == {i \in TaskIds : tasks[i].h = "idle"}

FirstFree == CHOOSE i \in FreeSlots : \A j \in FreeSlots : i <= j

Spawn(t) == FreeSlots # {} /\ tasks' = [tasks EXCEPT ![FirstFree] = t]

\* The handler in slot i goes on to await `calls`.
Await(i, calls) == tasks' = [tasks EXCEPT ![i].aw = [k \in calls |-> Pending]]

Finish(i) == tasks' = [tasks EXCEPT ![i] = Idle]

\* Handler h in slot i is suspended on exactly `calls` and may resume:
\* Promise.all settles when every call succeeded or any one failed.
Resumable(i, h, calls) ==
    /\ tasks[i].h = h
    /\ DOMAIN tasks[i].aw = calls
    /\ \/ \A k \in calls : tasks[i].aw[k].st = "ok"
       \/ \E k \in calls : tasks[i].aw[k].st = "err"

Failed(i) == \E k \in DOMAIN tasks[i].aw : tasks[i].aw[k].st = "err"

Result(i, k) == tasks[i].aw[k].v

UserEvent == ops < MaxOps /\ ops' = ops + 1

\* The page of rows getTableData returns: which connection and database it
\* was read from, and the limit, offset and order it was asked for.
TableData(c, d, limit, offset, sort) ==
    [c |-> c, d |-> d, limit |-> limit, offset |-> offset, sort |-> sort]

NoData == TableData(Null, Null, 0, 0, Null)

\* The table list getTables returns for schema s: where it was read from and,
\* once tables were dropped there, the tables it no longer names.
TableList(c, d, s) ==
    LET gone == {x.t : x \in {y \in dropped : y.c = c /\ y.d = d /\ y.s = s}}
    IN  IF gone = {} THEN Tag(c, d) ELSE [c |-> c, d |-> d, gone |-> gone]

\* Does a loaded table list name table t?
ListsTable(list, t) == IF "gone" \in DOMAIN list THEN t \notin list.gone ELSE TRUE

\* The handler in slot i is sending DROP TABLE for the table of its menu.
IsDrop(i, k) == tasks[i].h = "editorHandleDeleteTable" /\ k = "executeQuery"

\* The table a DROP sent by slot i removes: it is resolved in the database
\* the session is on when the statement runs.
DropTarget(i) ==
    [c |-> tasks[i].c, d |-> srv.db[tasks[i].c], s |-> tasks[i].s, t |-> tasks[i].cl.table]

\* The handler in slot i is sending its DELETE statement (not the COUNT).
IsDelete(i, k) ==
    tasks[i].h = "handleDeleteRows" /\ k = "executeQuery" /\ DOMAIN tasks[i].aw = {k}

Serve(i, k, ok) ==
    /\ k \in DOMAIN tasks[i].aw
    /\ tasks[i].aw[k].st = "pending"
    /\ ok => SrvCanSucceed(k, tasks[i].c)
    /\ ok /\ IsDrop(i, k) => DropTarget(i) \notin dropped
    /\ srv' = SrvState(k, tasks[i].c, tasks[i].d, ok)
    /\ tasks' = [tasks EXCEPT ![i].aw[k] =
                    IF ok /\ k = "getTableData"
                    THEN Ok(TableData(tasks[i].c, srv.db[tasks[i].c], tasks[i].cl.limit,
                                      tasks[i].cl.offset, tasks[i].cl.sort))
                    ELSE IF ok /\ k = "getTables"
                    THEN Ok(TableList(tasks[i].c, srv.db[tasks[i].c], tasks[i].s))
                    ELSE SrvAnswer(k, tasks[i].c, ok)]
    /\ dropped' = IF ok /\ IsDrop(i, k) THEN dropped \cup {DropTarget(i)} ELSE dropped
    /\ executed' = IF ok /\ IsDelete(i, k)
                   THEN executed \cup {[on |-> Tag(tasks[i].c, srv.db[tasks[i].c]),
                                        snap |-> tasks[i].cl.snap]}
                   ELSE executed
    /\ UNCHANGED <<storeVars, sidebarVars, ops, tabs, activeTabId, tree, gridVars>>


\* -------------------------------------------------- object-tree sidebar

SidebarInit ==
    /\ expanded = [connections |-> {}, databases |-> {}, schemas |-> {}]
    /\ treeData = [databases |-> [c \in {} |-> EmptyTag],
                   schemas |-> [k \in {} |-> EmptyTag],
                   tables |-> [k \in {} |-> EmptyTag]]
    /\ loading = [connections |-> {}, databases |-> {}, schemas |-> {}]
    /\ errors = [connections |-> {}, databases |-> {}, schemas |-> {}]

\* treeData.databases[connId]?.find((d) => d.is_current)?.name
CurrentDb(td, c) ==
    IF c \in DOMAIN td.databases /\ td.databases[c] # EmptyTag
    THEN td.databases[c].d ELSE Null

\* prev.databases[connId]?.map((d) => ({...d, is_current: d.name === dbName})) ?? []
MarkCurrent(td, c, d) ==
    [td EXCEPT !.databases =
        Put(@, c, IF c \in DOMAIN @ /\ @[c] # EmptyTag THEN Tag(@[c].c, d) ELSE EmptyTag)]

\* What ConnectionNode renders, hence what the user can click.
DbRowShown(c) ==
    /\ c \in connections
    /\ c \in expanded.connections
    /\ c \in DOMAIN treeData.databases
    /\ treeData.databases[c] # EmptyTag

SchemaRowShown(c, d) ==
    /\ DbRowShown(c)
    /\ <<c, d>> \in expanded.databases
    /\ <<c, d>> \in DOMAIN treeData.schemas

TableRowShown(c, d, s) ==
    /\ SchemaRowShown(c, d)
    /\ <<c, d, s>> \in expanded.schemas
    /\ <<c, d, s>> \in DOMAIN treeData.tables

\* const currentDb = ...; if (currentDb && currentDb.name !== dbName)
NeedsSwitch(c, d) == CurrentDb(treeData, c) # Null /\ CurrentDb(treeData, c) # d

toggleConnection(c) ==
    /\ c \in connections
    /\ UserEvent
    /\ UNCHANGED <<storeVars, srv, treeData>>
    /\ IF c \in expanded.connections
       THEN /\ expanded' = [expanded EXCEPT !.connections = @ \ {c}]
            /\ UNCHANGED <<tasks, loading, errors>>
       ELSE /\ expanded' = [expanded EXCEPT !.connections = @ \cup {c}]
            /\ IF ~includes(store.connectedIds, c)
               THEN /\ loading' = [loading EXCEPT !.connections = @ \cup {c}]
                    /\ errors' = [errors EXCEPT !.connections = @ \ {c}]
                    /\ Spawn(Task("toggleConnection", c, Null, Null, {"connect"},
                                  [NoCl EXCEPT !.had = c \in DOMAIN treeData.databases]))
               ELSE IF c \notin DOMAIN treeData.databases
               THEN /\ loading' = [loading EXCEPT !.connections = @ \cup {c}]
                    /\ Spawn(Task("toggleConnection", c, Null, Null, {"getDatabases"}, NoCl))
                    /\ UNCHANGED errors
               ELSE UNCHANGED <<tasks, loading, errors>>
    /\ UNCHANGED editorVars

toggleConnectionConnected(i) ==
    /\ Resumable(i, "toggleConnection", {"connect"})
    /\ UNCHANGED <<connections, srv, ops, expanded, treeData>>
    /\ IF Failed(i)
       THEN /\ errors' = [errors EXCEPT !.connections = @ \cup {tasks[i].c}]
            /\ loading' = [loading EXCEPT !.connections = @ \ {tasks[i].c}]
            /\ Finish(i)
            /\ UNCHANGED store
       ELSE /\ store' = connectTo(store, tasks[i].c)
            /\ UNCHANGED errors
            /\ IF ~tasks[i].cl.had
               THEN /\ loading' = [loading EXCEPT !.connections = @ \cup {tasks[i].c}]
                    /\ Await(i, {"getDatabases"})
               ELSE /\ loading' = [loading EXCEPT !.connections = @ \ {tasks[i].c}]
                    /\ Finish(i)
    /\ UNCHANGED editorVars

toggleConnectionLoaded(i) ==
    /\ Resumable(i, "toggleConnection", {"getDatabases"})
    /\ UNCHANGED <<storeVars, srv, ops, expanded>>
    /\ IF Failed(i)
       THEN /\ errors' = [errors EXCEPT !.connections = @ \cup {tasks[i].c}]
            /\ UNCHANGED treeData
       ELSE /\ treeData' = [treeData EXCEPT !.databases =
                                Put(@, tasks[i].c, Result(i, "getDatabases"))]
            /\ UNCHANGED errors
    /\ loading' = [loading EXCEPT !.connections = @ \ {tasks[i].c}]
    /\ Finish(i)
    /\ UNCHANGED editorVars

\* ---- toggleDatabase

toggleDatabase(c, d) ==
    LET key == <<c, d>> IN
    /\ DbRowShown(c)
    /\ UserEvent
    /\ UNCHANGED <<connections, srv, treeData, errors>>
    /\ IF key \in expanded.databases
       THEN /\ expanded' = [expanded EXCEPT !.databases = @ \ {key}]
            /\ UNCHANGED <<store, tasks, loading>>
       ELSE /\ expanded' = [expanded EXCEPT !.databases = @ \cup {key}]
            /\ IF NeedsSwitch(c, d)
               THEN /\ Spawn(Task("toggleDatabase", c, d, Null, {"switchDatabase"},
                                  [NoCl EXCEPT !.had = key \in DOMAIN treeData.schemas]))
                    /\ UNCHANGED <<store, loading>>
               ELSE /\ store' = setConnectionActiveDatabase(store, c, d)
                    /\ IF key \notin DOMAIN treeData.schemas
                       THEN /\ loading' = [loading EXCEPT !.databases = @ \cup {key}]
                            /\ Spawn(Task("toggleDatabase", c, d, Null, {"getSchemas"}, NoCl))
                       ELSE UNCHANGED <<tasks, loading>>
    /\ UNCHANGED editorVars

toggleDatabaseSwitched(i) ==
    LET c == tasks[i].c
        d == tasks[i].d
        key == <<c, d>>
    IN
    /\ Resumable(i, "toggleDatabase", {"switchDatabase"})
    /\ UNCHANGED <<connections, srv, ops, expanded>>
    /\ IF Failed(i)
       THEN /\ errors' = [errors EXCEPT !.databases = @ \cup {key}]
            /\ Finish(i)
            /\ UNCHANGED <<store, treeData, loading>>
       ELSE /\ treeData' = MarkCurrent(treeData, c, d)
            /\ store' = setConnectionActiveDatabase(store, c, d)
            /\ UNCHANGED errors
            /\ IF ~tasks[i].cl.had
               THEN /\ loading' = [loading EXCEPT !.databases = @ \cup {key}]
                    /\ Await(i, {"getSchemas"})
               ELSE /\ Finish(i)
                    /\ UNCHANGED loading
    /\ UNCHANGED editorVars

toggleDatabaseLoaded(i) ==
    LET key == <<tasks[i].c, tasks[i].d>> IN
    /\ Resumable(i, "toggleDatabase", {"getSchemas"})
    /\ UNCHANGED <<storeVars, srv, ops, expanded>>
    /\ IF Failed(i)
       THEN /\ errors' = [errors EXCEPT !.databases = @ \cup {key}]
            /\ UNCHANGED treeData
       ELSE /\ treeData' = [treeData EXCEPT !.schemas = Put(@, key, Result(i, "getSchemas"))]
            /\ UNCHANGED errors
    /\ loading' = [loading EXCEPT !.databases = @ \ {key}]
    /\ Finish(i)
    /\ UNCHANGED editorVars

\* ---- toggleSchema

\* toggleSchema that ignores the cached table list.
toggleSchemaAlwaysLoads(c, d, s) ==
    LET key == <<c, d, s>> IN
    /\ SchemaRowShown(c, d)
    /\ UserEvent
    /\ UNCHANGED <<storeVars, srv, treeData, errors>>
    /\ IF key \in expanded.schemas
       THEN /\ expanded' = [expanded EXCEPT !.schemas = @ \ {key}]
            /\ UNCHANGED <<tasks, loading>>
       ELSE /\ expanded' = [expanded EXCEPT !.schemas = @ \cup {key}]
            /\ IF NeedsSwitch(c, d)
               THEN /\ Spawn(Task("toggleSchema", c, d, s, {"switchDatabase"}, NoCl))
                    /\ UNCHANGED loading
               ELSE /\ loading' = [loading EXCEPT !.schemas = @ \cup {key}]
                    /\ Spawn(Task("toggleSchema", c, d, s, {"getTables"}, NoCl))
    /\ UNCHANGED editorVars

toggleSchema(c, d, s) ==
    LET key == <<c, d, s>> IN
    /\ SchemaRowShown(c, d)
    /\ UserEvent
    /\ UNCHANGED <<storeVars, srv, treeData, errors>>
    /\ IF key \in expanded.schemas
       THEN /\ expanded' = [expanded EXCEPT !.schemas = @ \ {key}]
            /\ UNCHANGED <<tasks, loading>>
       ELSE /\ expanded' = [expanded EXCEPT !.schemas = @ \cup {key}]
            /\ IF NeedsSwitch(c, d)
               THEN /\ Spawn(Task("toggleSchema", c, d, s, {"switchDatabase"},
                                  [NoCl EXCEPT !.had = key \in DOMAIN treeData.tables]))
                    /\ UNCHANGED loading
               ELSE IF key \notin DOMAIN treeData.tables
               THEN /\ loading' = [loading EXCEPT !.schemas = @ \cup {key}]
                    /\ Spawn(Task("toggleSchema", c, d, s, {"getTables"}, NoCl))
               ELSE UNCHANGED <<tasks, loading>>
    /\ UNCHANGED editorVars

toggleSchemaSwitched(i) ==
    LET c == tasks[i].c
        d == tasks[i].d
        key == <<c, d, tasks[i].s>>
    IN
    /\ Resumable(i, "toggleSchema", {"switchDatabase"})
    /\ UNCHANGED <<storeVars, srv, ops, expanded>>
    /\ IF Failed(i)
       THEN /\ errors' = [errors EXCEPT !.schemas = @ \cup {key}]
            /\ Finish(i)
            /\ UNCHANGED <<treeData, loading>>
       ELSE /\ treeData' = MarkCurrent(treeData, c, d)
            /\ UNCHANGED errors
            /\ IF ~tasks[i].cl.had
               THEN /\ loading' = [loading EXCEPT !.schemas = @ \cup {key}]
                    /\ Await(i, {"getTables"})
               ELSE /\ Finish(i)
                    /\ UNCHANGED loading
    /\ UNCHANGED editorVars

toggleSchemaLoaded(i) ==
    LET key == <<tasks[i].c, tasks[i].d, tasks[i].s>> IN
    /\ Resumable(i, "toggleSchema", {"getTables"})
    /\ UNCHANGED <<storeVars, srv, ops, expanded>>
    /\ IF Failed(i)
       THEN /\ errors' = [errors EXCEPT !.schemas = @ \cup {key}]
            /\ UNCHANGED treeData
       ELSE /\ treeData' = [treeData EXCEPT !.tables = Put(@, key, Result(i, "getTables"))]
            /\ UNCHANGED errors
    /\ loading' = [loading EXCEPT !.schemas = @ \ {key}]
    /\ Finish(i)
    /\ UNCHANGED editorVars


\* ---- handleTableClick

\* The part of handleTableClick after the database is known to be current.
OpenClickedTable(st, c, d, s, t, cl) ==
    LET s1 == setConnectionActiveDatabase(st, c, d)
        s2 == IF cl.t1 # Absent THEN setSchemas(s1, cl.t1) ELSE s1
        s3 == IF cl.had THEN setDatabases(s2, cl.t2) ELSE s2
    IN setPendingTable(s3, [connectionId |-> c, schema |-> s, table |-> t])

handleTableClick(c, d, s, t) ==
    LET st1 == IF store.activeConnectionId # c THEN setActiveConnection(store, c) ELSE store
        cl == [had |-> c \in DOMAIN store.connectionData,
               t1 |-> IF <<c, d>> \in DOMAIN treeData.schemas
                      THEN treeData.schemas[<<c, d>>] ELSE Absent,
               t2 |-> IF c \in DOMAIN treeData.databases
                      THEN treeData.databases[c] ELSE EmptyTag]
    IN
    /\ TableRowShown(c, d, s)
    /\ UserEvent
    /\ UNCHANGED <<connections, srv, sidebarVars>>
    /\ IF NeedsSwitch(c, d)
       THEN /\ store' = st1
            /\ Spawn(Task("handleTableClick", c, d, s, {"switchDatabase"}, cl))
       ELSE /\ store' = OpenClickedTable(st1, c, d, s, t, cl)
            /\ UNCHANGED tasks
    /\ UNCHANGED editorVars

handleTableClickSwitched(i, t) ==
    /\ Resumable(i, "handleTableClick", {"switchDatabase"})
    /\ UNCHANGED <<connections, srv, ops, expanded, loading, errors>>
    /\ Finish(i)
    /\ IF Failed(i)
       THEN UNCHANGED <<store, treeData>>
       ELSE /\ treeData' = MarkCurrent(treeData, tasks[i].c, tasks[i].d)
            /\ store' = OpenClickedTable(store, tasks[i].c, tasks[i].d, tasks[i].s, t,
                                          tasks[i].cl)
    /\ UNCHANGED editorVars

\* ---- context menu: ensureConnectionAndDb, then Count Rows

handleCountRows(c, d, s) ==
    LET st1 == IF store.activeConnectionId # c THEN setActiveConnection(store, c) ELSE store
    IN
    /\ TableRowShown(c, d, s)
    /\ UserEvent
    /\ UNCHANGED <<connections, srv, sidebarVars>>
    /\ IF NeedsSwitch(c, d)
       THEN /\ store' = st1
            /\ Spawn(Task("handleCountRows", c, d, s, {"switchDatabase"}, NoCl))
       ELSE /\ store' = setConnectionActiveDatabase(st1, c, d)
            /\ Spawn(Task("handleCountRows", c, d, s, {"executeQuery"}, NoCl))
    /\ UNCHANGED editorVars

handleCountRowsSwitched(i) ==
    /\ Resumable(i, "handleCountRows", {"switchDatabase"})
    /\ UNCHANGED <<connections, srv, ops, expanded, loading, errors>>
    /\ IF Failed(i)
       THEN /\ Finish(i)
            /\ UNCHANGED <<store, treeData>>
       ELSE /\ treeData' = MarkCurrent(treeData, tasks[i].c, tasks[i].d)
            /\ store' = setConnectionActiveDatabase(store, tasks[i].c, tasks[i].d)
            /\ Await(i, {"executeQuery"})
    /\ UNCHANGED editorVars

handleCountRowsCounted(i) ==
    /\ Resumable(i, "handleCountRows", {"executeQuery"})
    /\ Finish(i)
    /\ UNCHANGED <<storeVars, srv, ops, sidebarVars>>
    /\ UNCHANGED editorVars

\* ---- handleRefresh

handleRefresh ==
    /\ connections # {}
    /\ UserEvent
    /\ treeData' = [databases |-> [c \in {} |-> EmptyTag],
                    schemas |-> [k \in {} |-> EmptyTag],
                    tables |-> [k \in {} |-> EmptyTag]]
    /\ errors' = [connections |-> {}, databases |-> {}, schemas |-> {}]
    /\ UNCHANGED <<storeVars, srv, tasks, expanded, loading>>
    /\ UNCHANGED editorVars

\* ----------------------------------------------------------------- top bar

\* const [switching, setSwitching]: set while a handleSwitch connect runs.
switching == \E i \in TaskIds : tasks[i].h = "handleSwitch"

handleSwitch(c) ==
    /\ c \in connections
    /\ ~switching
    /\ UserEvent
    /\ UNCHANGED <<connections, srv, sidebarVars>>
    /\ IF includes(store.connectedIds, c)
       THEN /\ store' = setActiveConnection(store, c)
            /\ UNCHANGED tasks
       ELSE /\ Spawn(Task("handleSwitch", c, Null, Null, {"connect"}, NoCl))
            /\ UNCHANGED store
    /\ UNCHANGED editorVars

handleSwitchConnected(i) ==
    /\ Resumable(i, "handleSwitch", {"connect"})
    /\ UNCHANGED <<connections, srv, ops, sidebarVars>>
    /\ IF Failed(i)
       THEN Finish(i) /\ UNCHANGED store
       ELSE /\ store' = connectTo(store, tasks[i].c)
            /\ Await(i, {"getSchemas", "getFullSchema", "getDatabases"})
    /\ UNCHANGED editorVars

\* setSchemas; setSchemaContext; setDatabases; setActiveDatabase(currentDb?.name ?? conn.database)
StoreLoaded(st, schemas, ctx, databases, c) ==
    setActiveDatabase(
        setDatabases(setSchemaContext(setSchemas(st, schemas), ctx), databases),
        IF databases # EmptyTag THEN databases.d ELSE ProfileDb(c))

handleSwitchLoaded(i) ==
    /\ Resumable(i, "handleSwitch", {"getSchemas", "getFullSchema", "getDatabases"})
    /\ UNCHANGED <<connections, srv, ops, sidebarVars>>
    /\ Finish(i)
    /\ IF Failed(i)
       THEN UNCHANGED store
       ELSE store' = StoreLoaded(store, Result(i, "getSchemas"), Result(i, "getFullSchema"),
                                 Result(i, "getDatabases"), tasks[i].c)
    /\ UNCHANGED editorVars

handleDisconnect(c) ==
    /\ c \in connections
    /\ includes(store.connectedIds, c)
    /\ UserEvent
    /\ Spawn(Task("handleDisconnect", c, Null, Null, {"disconnect"}, NoCl))
    /\ UNCHANGED <<storeVars, srv, sidebarVars>>
    /\ UNCHANGED editorVars

handleDisconnectDone(i) ==
    /\ Resumable(i, "handleDisconnect", {"disconnect"})
    /\ store' = disconnectFrom(store, tasks[i].c)
    /\ Finish(i)
    /\ UNCHANGED <<connections, srv, ops, sidebarVars>>
    /\ UNCHANGED editorVars

\* ------------------------------------------------------- data grid state

\* useState<Record<string, unknown>>({}): no pending edit.
NoEdits == [k \in {} |-> Null]

\* useState<{ row; col } | null>(null): no cell is being edited.
NoCell == <<0, 0>>

\* No onSaveEdits call has been made.
NoCall == [st |-> "none", edits |-> {}]

\* TableEditorView and SQLEditorView render <DataGrid ... /> without an
\* onSaveEdits prop.
TableEditorOnSaveEdits == FALSE

\* The grid's own state after mounting.
GridEditInit ==
    [selected |-> {}, editedCells |-> NoEdits, editingCell |-> NoCell,
     isSaving |-> FALSE, saveError |-> FALSE]

\* The host of a grid: whether it passes onSaveEdits, how many times it has
\* replaced the rows, the onSaveEdits call it received last, whether a
\* replacement of the rows found a selection and pending edits to discard, and
\* whether a pending entry was set back to the cell's original value, and the
\* text the grid wrote to the clipboard.
HostInit(onSaveEdits) ==
    [onSaveEdits |-> onSaveEdits, epoch |-> 0, call |-> NoCall, discarded |-> FALSE,
     reverted |-> FALSE, clipboard |-> <<>>]

\* ----------------------------------------------------------- table editor

DEFAULT_PAGE_SIZE == 100

\* The first PageSizeCount entries of PAGE_SIZE_OPTIONS.
PAGE_SIZE_OPTIONS == {DEFAULT_PAGE_SIZE * n : n \in 1..PageSizeCount}

Pages == 0..MaxPage

\* The explorer's TreeState; the six loaded<Category> maps are one map keyed
\* by the category and the table key.
TreeInit ==
    [expandedDatabases |-> {}, expandedSchemas |-> {}, expandedTables |-> {},
     expandedSubCategories |-> {},
     loadedSchemas |-> [d \in {} |-> EmptyTag],
     loadedTables |-> [k \in {} |-> EmptyTag],
     loadedCategories |-> [k \in {} |-> EmptyTag]]

EditorInit ==
    /\ tabs = <<>>
    /\ activeTabId = Null
    /\ tree = TreeInit
    /\ executed = {}
    /\ dropped = {}
    /\ grid = [columns |-> <<>>, rows |-> <<>>]
    /\ deletes = <<>>
    /\ edit = GridEditInit
    /\ host = HostInit(TableEditorOnSaveEdits)

TabId(s, t) == <<"data", s, t>>

NewTab(s, t) ==
    [id |-> TabId(s, t), schema |-> s, table |-> t, data |-> NoData, loading |-> TRUE,
     error |-> FALSE, page |-> 0, pageSize |-> DEFAULT_PAGE_SIZE, sort |-> "none"]

HasTab(ts, id) == \E n \in 1..Len(ts) : ts[n].id = id

\* tabs.find((t) => t.id === id)
FindTab(ts, id) == ts[CHOOSE n \in 1..Len(ts) : ts[n].id = id]

\* prev.map((t) => t.id === id ? { ...t, ...upd } : t)
MapTab(ts, id, upd) == [n \in 1..Len(ts) |-> IF ts[n].id = id THEN upd @@ ts[n] ELSE ts[n]]

useActiveSchemas(st) ==
    IF st.activeConnectionId \in DOMAIN st.connectionData
    THEN st.connectionData[st.activeConnectionId].schemas
    ELSE EmptyTag

useActiveDatabases(st) ==
    IF st.activeConnectionId \in DOMAIN st.connectionData
    THEN st.connectionData[st.activeConnectionId].databases
    ELSE EmptyTag

\* The effect "auto-expand the current database when connecting": it runs
\* after a render in which activeDatabase, isConnected or schemas changed.
AutoExpand(tr, old, new) ==
    IF <<useActiveDatabase(old), useIsConnected(old), useActiveSchemas(old)>> =
       <<useActiveDatabase(new), useIsConnected(new), useActiveSchemas(new)>>
       \/ useActiveDatabase(new) = Null \/ ~useIsConnected(new)
    THEN tr
    ELSE [tr EXCEPT !.expandedDatabases = @ \cup {useActiveDatabase(new)},
                    !.loadedSchemas = Put(@, useActiveDatabase(new), useActiveSchemas(new))]

\* What the view renders, hence what the user can click.
ExplorerShown == useIsConnected(store)

EditorDbRowShown(d) ==
    /\ ExplorerShown
    /\ useActiveDatabases(store) # EmptyTag
    /\ d \in DbsOf(useActiveDatabases(store).c)

EditorSchemaRowShown(d) ==
    /\ EditorDbRowShown(d)
    /\ d \in tree.expandedDatabases
    /\ d \in DOMAIN tree.loadedSchemas
    /\ tree.loadedSchemas[d] # EmptyTag

EditorTableRowShown(d, s) ==
    /\ EditorSchemaRowShown(d)
    /\ <<d, s>> \in tree.expandedSchemas
    /\ <<d, s>> \in DOMAIN tree.loadedTables

\* The row of table t: the loaded list of its schema names it.
EditorTableShown(d, s, t) ==
    /\ EditorTableRowShown(d, s)
    /\ ListsTable(tree.loadedTables[<<d, s>>], t)

GridShown ==
    /\ ExplorerShown
    /\ HasTab(tabs, activeTabId)
    /\ ~FindTab(tabs, activeTabId).loading
    /\ ~FindTab(tabs, activeTabId).error
    /\ FindTab(tabs, activeTabId).data # NoData

\* What an editor handler keeps across its awaits: the tab it works on, the
\* page request it sends and the snapshot its rows came from.
Request(id, limit, offset, sort, snap) ==
    [id |-> id, limit |-> limit, offset |-> offset, sort |-> sort, snap |-> snap]

\* ---- handleConnectFromList

connectingId == \E i \in TaskIds : tasks[i].h = "handleConnectFromList"

handleConnectFromList(c) ==
    /\ c \in connections
    /\ ~ExplorerShown
    /\ ~connectingId
    /\ UserEvent
    /\ Spawn(Task("handleConnectFromList", c, Null, Null, {"connect"}, NoCl))
    /\ UNCHANGED <<storeVars, srv, sidebarVars, editorVars>>

handleConnectFromListConnected(i) ==
    /\ Resumable(i, "handleConnectFromList", {"connect"})
    /\ UNCHANGED <<connections, srv, ops, sidebarVars, tabs, activeTabId, executed, dropped, gridVars>>
    /\ IF Failed(i)
       THEN Finish(i) /\ UNCHANGED <<store, tree>>
       ELSE /\ store' = connectTo(store, tasks[i].c)
            /\ tree' = AutoExpand(tree, store, store')
            /\ Await(i, {"getSchemas", "getFullSchema", "getDatabases"})

handleConnectFromListLoaded(i) ==
    /\ Resumable(i, "handleConnectFromList", {"getSchemas", "getFullSchema", "getDatabases"})
    /\ UNCHANGED <<connections, srv, ops, sidebarVars, tabs, activeTabId, executed, dropped, gridVars>>
    /\ Finish(i)
    /\ IF Failed(i)
       THEN UNCHANGED <<store, tree>>
       ELSE /\ store' = StoreLoaded(store, Result(i, "getSchemas"),
                                    Result(i, "getFullSchema"), Result(i, "getDatabases"),
                                    tasks[i].c)
            /\ tree' = AutoExpand(tree, store, store')

\* ---- explorer: toggleDatabase / toggleSchema of the table editor

\* setSchemas; setSchemaContext; setDatabases; setActiveDatabase(dbName)
StoreSwitched(st, schemas, ctx, databases, d) ==
    setActiveDatabase(
        setDatabases(setSchemaContext(setSchemas(st, schemas), ctx), databases), d)

editorToggleDatabase(d) ==
    /\ EditorDbRowShown(d)
    /\ UserEvent
    /\ UNCHANGED <<storeVars, srv, sidebarVars, tabs, activeTabId, executed, dropped, gridVars>>
    /\ IF d \in tree.expandedDatabases
       THEN /\ tree' = [tree EXCEPT !.expandedDatabases = @ \ {d}]
            /\ UNCHANGED tasks
       ELSE IF d # useActiveDatabase(store)
       THEN /\ Spawn(Task("editorToggleDatabase", store.activeConnectionId, d, Null,
                          {"switchDatabase"}, NoCl))
            /\ UNCHANGED tree
       ELSE /\ tree' = [tree EXCEPT !.expandedDatabases = @ \cup {d},
                                    !.loadedSchemas = Put(@, d, useActiveSchemas(store))]
            /\ UNCHANGED tasks

editorToggleDatabaseSwitched(i) ==
    /\ Resumable(i, "editorToggleDatabase", {"switchDatabase"})
    /\ UNCHANGED <<storeVars, srv, ops, sidebarVars, editorVars>>
    /\ IF Failed(i)
       THEN Finish(i)
       ELSE Await(i, {"getSchemas", "getFullSchema", "getDatabases"})

editorToggleDatabaseLoaded(i) ==
    /\ Resumable(i, "editorToggleDatabase", {"getSchemas", "getFullSchema", "getDatabases"})
    /\ UNCHANGED <<connections, srv, ops, sidebarVars, tabs, activeTabId, executed, dropped, gridVars>>
    /\ Finish(i)
    /\ IF Failed(i)
       THEN UNCHANGED <<store, tree>>
       ELSE /\ store' = StoreSwitched(store, Result(i, "getSchemas"),
                                      Result(i, "getFullSchema"), Result(i, "getDatabases"),
                                      tasks[i].d)
            /\ tree' = AutoExpand(
                   [tree EXCEPT !.expandedDatabases = @ \cup {tasks[i].d},
                                !.loadedSchemas = Put(@, tasks[i].d, Result(i, "getSchemas"))],
                   store, store')

editorToggleSchema(d, s) ==
    /\ EditorSchemaRowShown(d)
    /\ UserEvent
    /\ UNCHANGED <<storeVars, srv, sidebarVars, tabs, activeTabId, executed, dropped, gridVars>>
    /\ IF <<d, s>> \in tree.expandedSchemas
       THEN /\ tree' = [tree EXCEPT !.expandedSchemas = @ \ {<<d, s>>}]
            /\ UNCHANGED tasks
       ELSE IF d # useActiveDatabase(store)
       THEN /\ Spawn(Task("editorToggleSchema", store.activeConnectionId, d, s,
                          {"switchDatabase"},
                          [NoCl EXCEPT !.had = <<d, s>> \in DOMAIN tree.loadedTables]))
            /\ UNCHANGED tree
       ELSE IF <<d, s>> \notin DOMAIN tree.loadedTables
       THEN /\ Spawn(Task("editorToggleSchema", store.activeConnectionId, d, s,
                          {"getTables"}, NoCl))
            /\ UNCHANGED tree
       ELSE /\ tree' = [tree EXCEPT !.expandedSchemas = @ \cup {<<d, s>>}]
            /\ UNCHANGED tasks

editorToggleSchemaSwitched(i) ==
    /\ Resumable(i, "editorToggleSchema", {"switchDatabase"})
    /\ UNCHANGED <<storeVars, srv, ops, sidebarVars, editorVars>>
    /\ IF Failed(i)
       THEN Finish(i)
       ELSE Await(i, {"getSchemas", "getFullSchema", "getDatabases"})

editorToggleSchemaReloaded(i) ==
    LET key == <<tasks[i].d, tasks[i].s>>
        st1 == StoreSwitched(store, Result(i, "getSchemas"), Result(i, "getFullSchema"),
                             Result(i, "getDatabases"), tasks[i].d)
    IN
    /\ Resumable(i, "editorToggleSchema", {"getSchemas", "getFullSchema", "getDatabases"})
    /\ UNCHANGED <<connections, srv, ops, sidebarVars, tabs, activeTabId, executed, dropped, gridVars>>
    /\ IF Failed(i)
       THEN Finish(i) /\ UNCHANGED <<store, tree>>
       ELSE /\ store' = st1
            /\ IF tasks[i].cl.had
               THEN /\ tree' = AutoExpand([tree EXCEPT !.expandedSchemas = @ \cup {key}],
                                          store, st1)
                    /\ Finish(i)
               ELSE /\ tree' = AutoExpand(tree, store, st1)
                    /\ Await(i, {"getTables"})

editorToggleSchemaLoaded(i) ==
    LET key == <<tasks[i].d, tasks[i].s>>
    IN
    /\ Resumable(i, "editorToggleSchema", {"getTables"})
    /\ UNCHANGED <<storeVars, srv, ops, sidebarVars, tabs, activeTabId, executed, dropped, gridVars>>
    /\ Finish(i)
    /\ IF Failed(i)
       THEN UNCHANGED tree
       ELSE tree' = [tree EXCEPT !.expandedSchemas = @ \cup {key},
                                 !.loadedTables = Put(@, key, Result(i, "getTables"))]

\* ---- tab operations

TabLoading == [loading |-> TRUE, error |-> FALSE]

TabFailed == [error |-> TRUE, loading |-> FALSE]

\* The tab fetch of slot i has settled: show its rows, or its error.
TabSettled(i) ==
    /\ Finish(i)
    /\ UNCHANGED <<storeVars, srv, ops, sidebarVars, activeTabId, tree, executed, dropped, gridVars>>
    /\ tabs' = IF Failed(i)
               THEN MapTab(tabs, tasks[i].cl.id, TabFailed)
               ELSE MapTab(tabs, tasks[i].cl.id,
                           [data |-> Result(i, "getTableData"), loading |-> FALSE])

openTable(d, s, t) ==
    /\ EditorTableShown(d, s, t)
    /\ UserEvent
    /\ UNCHANGED <<storeVars, srv, sidebarVars, tree, executed, dropped, gridVars>>
    /\ activeTabId' = TabId(s, t)
    /\ IF HasTab(tabs, TabId(s, t))
       THEN UNCHANGED <<tabs, tasks>>
       ELSE /\ tabs' = Append(tabs, NewTab(s, t))
            /\ Spawn(Task("openTable", store.activeConnectionId, Null, s,
                          {"getTableData", "executeQuery"},
                          Request(TabId(s, t), DEFAULT_PAGE_SIZE, 0, "none", NoData)))

openTableLoaded(i) ==
    /\ Resumable(i, "openTable", {"getTableData", "executeQuery"})
    /\ TabSettled(i)

closeTab(id) ==
    LET idx == CHOOSE n \in 1..Len(tabs) : tabs[n].id = id
        newTabs == SelectSeq(tabs, LAMBDA t : t.id # id)
        Max(a, b) == IF a > b THEN a ELSE b
    IN
    /\ ExplorerShown
    /\ HasTab(tabs, id)
    /\ UserEvent
    /\ tabs' = newTabs
    /\ activeTabId' = IF activeTabId = id
                      THEN IF Len(newTabs) > 0 THEN newTabs[Max(1, idx - 1)].id ELSE Null
                      ELSE activeTabId
    /\ UNCHANGED <<storeVars, srv, tasks, sidebarVars, tree, executed, dropped, gridVars>>

\* ---- table nodes of the explorer

SubCategories == {"columns", "indexes"}

\* loaderMap[category].fn
CategoryCall(category) == IF category = "columns" THEN "getColumns" ELSE "getIndexes"

\* What the handlers of a table node keep across their awaits.
TableCl(t, category) ==
    [table |-> t, category |-> category, tabs |-> tabs, activeTabId |-> activeTabId,
     activeDatabase |-> useActiveDatabase(store)]

toggleTable(d, s, t) ==
    /\ EditorTableShown(d, s, t)
    /\ UserEvent
    /\ tree' = [tree EXCEPT !.expandedTables =
                    IF <<d, s, t>> \in @ THEN @ \ {<<d, s, t>>} ELSE @ \cup {<<d, s, t>>}]
    /\ UNCHANGED <<storeVars, srv, tasks, sidebarVars, tabs, activeTabId, executed, dropped,
                   gridVars>>

toggleSubCategory(d, s, t, category) ==
    LET catKey == <<d, s, t, category>>
        tableKey == <<category, d, s, t>>
    IN
    /\ EditorTableShown(d, s, t)
    /\ <<d, s, t>> \in tree.expandedTables
    /\ UserEvent
    /\ UNCHANGED <<storeVars, srv, sidebarVars, tabs, activeTabId, executed, dropped, gridVars>>
    /\ IF catKey \in tree.expandedSubCategories
       THEN /\ tree' = [tree EXCEPT !.expandedSubCategories = @ \ {catKey}]
            /\ UNCHANGED tasks
       ELSE IF tableKey \notin DOMAIN tree.loadedCategories
       THEN /\ Spawn(Task("toggleSubCategory", store.activeConnectionId, d, s,
                          {CategoryCall(category)}, TableCl(t, category)))
            /\ UNCHANGED tree
       ELSE /\ tree' = [tree EXCEPT !.expandedSubCategories = @ \cup {catKey}]
            /\ UNCHANGED tasks

toggleSubCategoryLoaded(i) ==
    LET cl == tasks[i].cl
        k == CHOOSE k \in DOMAIN tasks[i].aw : TRUE
    IN
    /\ tasks[i].h = "toggleSubCategory"
    /\ Resumable(i, "toggleSubCategory", {k})
    /\ Finish(i)
    /\ UNCHANGED <<storeVars, srv, ops, sidebarVars, tabs, activeTabId, executed, dropped,
                   gridVars>>
    /\ IF Failed(i)
       THEN UNCHANGED tree
       ELSE tree' = [tree EXCEPT
                        !.expandedSubCategories =
                            @ \cup {<<tasks[i].d, tasks[i].s, cl.table, cl.category>>},
                        !.loadedCategories =
                            Put(@, <<cl.category, tasks[i].d, tasks[i].s, cl.table>>,
                                Result(i, k))]

\* The context menu of a table row, "Delete table", confirmed.
editorHandleDeleteTable(d, s, t) ==
    /\ EditorTableShown(d, s, t)
    /\ UserEvent
    /\ Spawn(Task("editorHandleDeleteTable", store.activeConnectionId, Null, s,
                  {"executeQuery"}, TableCl(t, Null)))
    /\ UNCHANGED <<storeVars, srv, sidebarVars, editorVars>>

\* DROP TABLE settled: close the table's tab as closeTab of the handler's
\* render does, and refetch the schema's table list.
editorHandleDeleteTableDropped(i) ==
    LET cl == tasks[i].cl
        id == TabId(tasks[i].s, cl.table)
        idx == CHOOSE n \in 1..Len(cl.tabs) : cl.tabs[n].id = id
        newTabs == SelectSeq(cl.tabs, LAMBDA x : x.id # id)
        Max(a, b) == IF a > b THEN a ELSE b
    IN
    /\ Resumable(i, "editorHandleDeleteTable", {"executeQuery"})
    /\ UNCHANGED <<storeVars, srv, ops, sidebarVars, tree, executed, dropped, gridVars>>
    /\ IF Failed(i)
       THEN Finish(i) /\ UNCHANGED <<tabs, activeTabId>>
       ELSE /\ IF HasTab(cl.tabs, id)
               THEN /\ tabs' = newTabs
                    /\ activeTabId' =
                           IF cl.activeTabId = id
                           THEN IF Len(newTabs) > 0 THEN newTabs[Max(1, idx - 1)].id
                                ELSE Null
                           ELSE activeTabId
               ELSE UNCHANGED <<tabs, activeTabId>>
            /\ IF cl.activeDatabase # Null
               THEN Await(i, {"getTables"})
               ELSE Finish(i)

editorHandleDeleteTableLoaded(i) ==
    /\ Resumable(i, "editorHandleDeleteTable", {"getTables"})
    /\ Finish(i)
    /\ UNCHANGED <<storeVars, srv, ops, sidebarVars, tabs, activeTabId, executed, dropped,
                   gridVars>>
    /\ IF Failed(i)
       THEN UNCHANGED tree
       ELSE tree' = [tree EXCEPT !.loadedTables =
                        Put(@, <<tasks[i].cl.activeDatabase, tasks[i].s>>,
                            Result(i, "getTables"))]

handlePageChange(newPage) ==
    LET tab == FindTab(tabs, activeTabId)
    IN
    /\ GridShown
    /\ newPage # tab.page
    /\ UserEvent
    /\ tabs' = MapTab(tabs, tab.id, [page |-> newPage] @@ TabLoading)
    /\ Spawn(Task("handlePageChange", store.activeConnectionId, Null, tab.schema,
                  {"getTableData"},
                  Request(tab.id, tab.pageSize, newPage * tab.pageSize, tab.sort, tab.data)))
    /\ UNCHANGED <<storeVars, srv, sidebarVars, activeTabId, tree, executed, dropped, gridVars>>

handlePageChangeLoaded(i) ==
    /\ Resumable(i, "handlePageChange", {"getTableData"})
    /\ TabSettled(i)

handlePageSizeChange(newSize) ==
    LET tab == FindTab(tabs, activeTabId)
    IN
    /\ GridShown
    /\ newSize # tab.pageSize
    /\ UserEvent
    /\ tabs' = MapTab(tabs, tab.id,
                      [page |-> 0, pageSize |-> newSize] @@ TabLoading)
    /\ Spawn(Task("handlePageSizeChange", store.activeConnectionId, Null, tab.schema,
                  {"getTableData", "executeQuery"},
                  Request(tab.id, newSize, 0, tab.sort, tab.data)))
    /\ UNCHANGED <<storeVars, srv, sidebarVars, activeTabId, tree, executed, dropped, gridVars>>

handlePageSizeChangeLoaded(i) ==
    /\ Resumable(i, "handlePageSizeChange", {"getTableData", "executeQuery"})
    /\ TabSettled(i)

\* DataGrid.handleColumnSort: none -> ASC -> DESC -> none.
handleColumnSort(sort) ==
    CASE sort = "ASC" -> "DESC"
      [] sort = "DESC" -> "none"
      [] OTHER -> "ASC"

handleSortChange ==
    LET tab == FindTab(tabs, activeTabId)
        direction == handleColumnSort(tab.sort)
    IN
    /\ GridShown
    /\ UserEvent
    /\ tabs' = MapTab(tabs, tab.id,
                      [page |-> 0, sort |-> direction] @@ TabLoading)
    /\ Spawn(Task("handleSortChange", store.activeConnectionId, Null, tab.schema,
                  {"getTableData"},
                  Request(tab.id, tab.pageSize, 0, direction, tab.data)))
    /\ UNCHANGED <<storeVars, srv, sidebarVars, activeTabId, tree, executed, dropped, gridVars>>

handleSortChangeLoaded(i) ==
    /\ Resumable(i, "handleSortChange", {"getTableData"})
    /\ TabSettled(i)

\* The DELETE of the selected row; the request kept for refreshTab is the
\* tab as this render saw it.
handleDeleteRows ==
    LET tab == FindTab(tabs, activeTabId)
    IN
    /\ GridShown
    /\ UserEvent
    /\ Spawn(Task("handleDeleteRows", store.activeConnectionId, Null, tab.schema,
                  {"executeQuery"},
                  Request(tab.id, tab.pageSize, tab.page * tab.pageSize, tab.sort,
                          Tag(tab.data.c, tab.data.d))))
    /\ UNCHANGED <<storeVars, srv, sidebarVars, editorVars>>

\* The DELETE has settled; on success refreshTab(activeTab.id) starts.
refreshTab(i) ==
    /\ Resumable(i, "handleDeleteRows", {"executeQuery"})
    /\ UNCHANGED <<storeVars, srv, ops, sidebarVars, activeTabId, tree, executed, dropped, gridVars>>
    /\ IF Failed(i)
       THEN Finish(i) /\ UNCHANGED tabs
       ELSE /\ tabs' = MapTab(tabs, tasks[i].cl.id, TabLoading)
            /\ Await(i, {"getTableData", "executeQuery"})

refreshTabLoaded(i) ==
    /\ Resumable(i, "handleDeleteRows", {"getTableData", "executeQuery"})
    /\ TabSettled(i)

\* ------------------------------------------- the row predicate of a DELETE

\* A cell of a result row: JavaScript null, a number, a boolean, a string or
\* an object (a json/jsonb value or an array). Its text is a sequence of
\* chunks; a chunk is one single quote or a run of other characters. The text
\* of an object is its JSON text.
Cell(t, v) == [t |-> t, v |-> v]

CellValues ==
    {Cell("null", <<>>), Cell("number", <<"42">>), Cell("boolean", <<"true">>),
     Cell("string", <<"2024-01-01">>), Cell("string", <<"O", "'", "Neil">>),
     Cell("object", <<"{\"by\":\"O", "'", "Neil\"}">>)}

\* String(value)
String(cell) ==
    IF cell.t = "null" THEN <<"null">>
    ELSE IF cell.t = "object" THEN <<"[object Object]">>
    ELSE cell.v

\* JSON.stringify(value), of an object
JSONstringify(cell) == cell.v

ColumnName(n) ==
    CASE n = 1 -> "created_at"
      [] n = 2 -> "note"
      [] OTHER -> "col" \o ToString(n)

\* A replace that leaves the text as it is.
replaceQuotesNone(s) == s

\* s.replace(/'/g, "''")
replaceQuotes(s) == [n \in 1..Len(s) |-> IF s[n] = "'" THEN "''" ELSE s[n]]

\* A clause builder that compares every value, NULL included, with "=".
conditionAlwaysEquals(col, val) ==
    [col |-> col, op |-> "=",
     rhs |-> IF val.t = "string" THEN <<"'">> \o val.v \o <<"'">> ELSE val.v]

\* One element of `conditions`: the clause for column col holding val.
condition(col, val) ==
    IF val.t = "null" THEN [col |-> col, op |-> "IS NULL", rhs |-> <<>>]
    ELSE IF val.t \in {"number", "boolean"} THEN [col |-> col, op |-> "=", rhs |-> val.v]
    ELSE LET s == IF val.t = "object" THEN JSONstringify(val) ELSE String(val)
         IN [col |-> col, op |-> "=", rhs |-> <<"'">> \o replaceQuotes(s) \o <<"'">>]

\* A predicate builder that leaves out the columns whose value is NULL.
conditionsSkipNull(cols, row) ==
    LET kept == SelectSeq([n \in 1..Len(cols) |-> n], LAMBDA n : row[n].t # "null")
    IN [k \in 1..Len(kept) |-> condition(cols[kept[k]], row[kept[k]])]

\* cols.map((col, colIdx) => ...), to be joined with " AND ".
conditions(cols, row) == [n \in 1..Len(cols) |-> condition(cols[n], row[n])]

\* deletes.push(`DELETE FROM ... WHERE ${conditions};`) for each selected row.
BuildDeletes(cols, rows, rowIndices) ==
    [n \in 1..Len(rowIndices) |->
        [row |-> rows[rowIndices[n]], where |-> conditions(cols, rows[rowIndices[n]])]]

\* DataGrid.handleDelete -> onDeleteRows(selectedIndices) -> handleDeleteRows.
\* The grid offers rows to select only for a result with columns.
handleDelete(rowIndices) ==
    /\ Len(grid.columns) # 0
    /\ Len(rowIndices) > 0
    /\ deletes = <<>>
    /\ deletes' = deletes \o BuildDeletes(grid.columns, grid.rows, rowIndices)
    /\ edit' = [edit EXCEPT !.selected = {}]
    /\ UNCHANGED <<storeVars, srv, tasks, ops, sidebarVars, tabs, activeTabId, tree,
                   executed, dropped, grid, host>>

\* ------------------------------------------------------ data grid editing

\* The table shown by the grid whose cells are edited: its columns, their
\* data types, and the row snapshots a host passes in.
GridColumns == <<"id", "name", "email", "meta">>

dataType(col) == IF col = 1 THEN "integer" ELSE IF col = 4 THEN "jsonb" ELSE "text"

GridSnapshots ==
    {<< <<Cell("number", <<"42">>), Cell("string", <<"Ann">>), Cell("null", <<>>),
          Cell("object", <<"{\"a\":1}">>)>>,
        <<Cell("string", <<"43">>), Cell("string", <<"Bob">>), Cell("string", <<"b@x">>),
          Cell("null", <<>>)>> >>,
     << <<Cell("number", <<"42">>), Cell("string", <<"Ann">>), Cell("string", <<"ann@x">>),
          Cell("object", <<"{\"a\":1}">>)>>,
        <<Cell("string", <<"43">>), Cell("string", <<"Bob">>), Cell("null", <<>>),
          Cell("object", <<"{\"a\":2}">>)>> >>}

\* CellEditor.commit / setNull: the values an editor of a column of this data
\* type can hand to onCommit.
CellEditorValues(dt) ==
    IF dt = "integer"
    THEN {Cell("null", <<>>), Cell("number", <<"42">>), Cell("number", <<"43">>)}
    ELSE IF dt = "jsonb"
    THEN {Cell("null", <<>>), Cell("object", <<"{\"a\":1}">>),
          Cell("object", <<"{\"a\":2}">>)}
    ELSE {Cell("null", <<>>), Cell("string", <<"Ann">>), Cell("string", <<"ann@x">>)}

\* A commitEdit that records every committed value.
sameNever(newValue, originalValue) == FALSE

\* const same = newValue === originalValue || (both null) ||
\*              (neither null && String(newValue) === String(originalValue))
same(newValue, originalValue) ==
    \/ newValue = originalValue
    \/ newValue.t = "null" /\ originalValue.t = "null"
    \/ /\ newValue.t # "null"
       /\ originalValue.t # "null"
       /\ String(newValue) = String(originalValue)

hasEdits == DOMAIN edit.editedCells # {}

canEdit == host.onSaveEdits

\* Array.from(selected).sort((a, b) => a - b)
selectedIndices ==
    CHOOSE q \in [1..Cardinality(edit.selected) -> edit.selected] :
        \A i, j \in 1..Cardinality(edit.selected) : i < j => q[i] < q[j]

gridFrame ==
    UNCHANGED <<storeVars, srv, tasks, sidebarVars, tabs, activeTabId, tree, executed,
                dropped, deletes>>

\* The literal of a cell in an exported INSERT statement.
escapeSqlValue(cell) ==
    IF cell.t = "null" THEN <<"NULL">>
    ELSE IF cell.t \in {"number", "boolean"} THEN String(cell)
    ELSE LET s == IF cell.t = "object" THEN JSONstringify(cell) ELSE String(cell)
         IN <<"'">> \o replaceQuotes(s) \o <<"'">>

\* formatRows(columns, rows, indices, "sql", ...): one INSERT per selected row,
\* with vals = row.map(escapeSqlValue).
formatRows(rows, indices) ==
    [n \in 1..Len(indices) |->
        [row |-> rows[indices[n]],
         vals |-> [k \in 1..Len(rows[indices[n]]) |-> escapeSqlValue(rows[indices[n]][k])]]]

\* "Copy as SQL": navigator.clipboard.writeText(formatRows(...)).
handleCopy ==
    /\ edit.selected # {}
    /\ host.clipboard = <<>>
    /\ host' = [host EXCEPT !.clipboard = formatRows(grid.rows, selectedIndices)]
    /\ UNCHANGED <<storeVars, srv, tasks, ops, sidebarVars, tabs, activeTabId, tree,
                   executed, dropped, grid, deletes, edit>>

toggleRow(idx) ==
    /\ idx \in 1..Len(grid.rows)
    /\ UserEvent
    /\ edit' = [edit EXCEPT !.selected = IF idx \in @ THEN @ \ {idx} ELSE @ \cup {idx}]
    /\ UNCHANGED <<grid, host>>
    /\ gridFrame

\* onDoubleClick={canEdit && !isEditingThis ? () => setEditingCell(...) : undefined}
onDoubleClick(row, col) ==
    /\ row \in 1..Len(grid.rows)
    /\ col \in 1..Len(grid.columns)
    /\ canEdit
    /\ edit.editingCell # <<row, col>>
    /\ UserEvent
    /\ edit' = [edit EXCEPT !.editingCell = <<row, col>>]
    /\ UNCHANGED <<grid, host>>
    /\ gridFrame

\* The CellEditor of the cell being edited calls onCommit(newValue).
commitEdit(row, col, newValue) ==
    LET originalValue == grid.rows[row][col]
        key == <<row, col>>
    IN
    /\ edit.editingCell = key
    /\ UserEvent
    /\ edit' = [edit EXCEPT !.editedCells = IF same(newValue, originalValue)
                                             THEN Del(@, key)
                                             ELSE Put(@, key, newValue),
                            !.editingCell = NoCell]
    /\ host' = [host EXCEPT !.reverted = @ \/ (/\ key \in DOMAIN edit.editedCells
                                                /\ newValue = originalValue)]
    /\ UNCHANGED grid
    /\ gridFrame

\* A Discard that empties the buffer but leaves the error banner up.
discardEditsKeepsError ==
    /\ canEdit
    /\ hasEdits
    /\ ~edit.isSaving
    /\ UserEvent
    /\ edit' = [edit EXCEPT !.editedCells = NoEdits, !.editingCell = NoCell]
    /\ UNCHANGED <<grid, host>>
    /\ gridFrame

discardEdits ==
    /\ canEdit
    /\ hasEdits
    /\ ~edit.isSaving
    /\ UserEvent
    /\ edit' = [edit EXCEPT !.editedCells = NoEdits, !.editingCell = NoCell,
                            !.saveError = FALSE]
    /\ UNCHANGED <<grid, host>>
    /\ gridFrame

\* Object.entries(currentEdits).map(([key, newValue]) => ({ rowIdx, colIdx, newValue }))
edits(currentEdits) ==
    {[rowIdx |-> key[1], colIdx |-> key[2], newValue |-> currentEdits[key]] :
        key \in DOMAIN currentEdits}

\* The Save button: saveEdits up to its await onSaveEdits(edits).
saveEdits ==
    /\ canEdit
    /\ hasEdits
    /\ ~edit.isSaving
    /\ UserEvent
    /\ edit' = [edit EXCEPT !.saveError = FALSE, !.isSaving = TRUE]
    /\ host' = [host EXCEPT !.call = [st |-> "pending", edits |-> edits(edit.editedCells)]]
    /\ UNCHANGED grid
    /\ gridFrame

\* The host's promise settles and saveEdits runs on: try / catch / finally.
saveEditsSettled(ok) ==
    /\ host.call.st = "pending"
    /\ host' = [host EXCEPT !.call.st = IF ok THEN "ok" ELSE "err"]
    /\ edit' = IF ok
               THEN [edit EXCEPT !.editedCells = NoEdits, !.editingCell = NoCell,
                                 !.isSaving = FALSE]
               ELSE [edit EXCEPT !.saveError = TRUE, !.isSaving = FALSE]
    /\ UNCHANGED <<grid, ops>>
    /\ gridFrame

\* An effect on [rows] that resets the edits but keeps the selection.
resetKeepsSelection(e) ==
    [e EXCEPT !.editedCells = NoEdits, !.editingCell = NoCell, !.saveError = FALSE]

\* useEffect(() => { setSelected(new Set()); ... }, [rows])
resetOnRows(e) ==
    [e EXCEPT !.selected = {}, !.editedCells = NoEdits, !.editingCell = NoCell,
              !.saveError = FALSE]

\* The host renders the grid with another rows array (a refreshed, paged or
\* re-sorted snapshot, or another tab's), and the effect on [rows] runs.
rowsReplaced(newRows) ==
    /\ host.epoch < MaxSnapshots
    /\ grid' = [grid EXCEPT !.rows = newRows]
    /\ host' = [host EXCEPT !.epoch = @ + 1,
                            !.discarded = @ \/ (edit.selected # {} /\ hasEdits)]
    /\ edit' = resetOnRows(edit)
    /\ UNCHANGED ops
    /\ gridFrame

\* ------------------------------------------------------- the specifications

Calls == {"connect", "disconnect", "switchDatabase"} \cup ReadCalls

Server == \E i \in TaskIds, k \in Calls, ok \in BOOLEAN : Serve(i, k, ok)

\* One saved connection: the object tree, the top bar and the server.
Init ==
    /\ connections = {"A"}
    /\ store = StoreInit
    /\ srv = SrvInit
    /\ tasks = [i \in TaskIds |-> Idle]
    /\ ops = 0
    /\ SidebarInit
    /\ EditorInit

Next ==
    \/ \E c \in Conns : toggleConnection(c)
    \/ \E i \in TaskIds : toggleConnectionConnected(i)
    \/ \E i \in TaskIds : toggleConnectionLoaded(i)
    \/ \E c \in Conns : \E d \in DbsOf(c) : toggleDatabase(c, d)
    \/ \E i \in TaskIds : toggleDatabaseSwitched(i)
    \/ \E i \in TaskIds : toggleDatabaseLoaded(i)
    \/ \E c \in Conns : \E d \in DbsOf(c), s \in Schemas : toggleSchema(c, d, s)
    \/ \E i \in TaskIds : toggleSchemaSwitched(i)
    \/ \E i \in TaskIds : toggleSchemaLoaded(i)
    \/ \E c \in Conns : \E d \in DbsOf(c), s \in Schemas, t \in Tables : handleTableClick(c, d, s, t)
    \/ \E i \in TaskIds, t \in Tables : handleTableClickSwitched(i, t)
    \/ \E c \in Conns : \E d \in DbsOf(c), s \in Schemas : handleCountRows(c, d, s)
    \/ \E i \in TaskIds : handleCountRowsSwitched(i)
    \/ \E i \in TaskIds : handleCountRowsCounted(i)
    \/ handleRefresh
    \/ \E c \in Conns : handleSwitch(c)
    \/ \E i \in TaskIds : handleSwitchConnected(i)
    \/ \E i \in TaskIds : handleSwitchLoaded(i)
    \/ \E c \in Conns : handleDisconnect(c)
    \/ \E i \in TaskIds : handleDisconnectDone(i)
    \/ Server

Spec == Init /\ [][Next]_vars

\* Two saved connections: connecting and disconnecting from the object tree
\* and from the top bar.
InitConnect ==
    /\ connections = Conns
    /\ store = StoreInit
    /\ srv = SrvInit
    /\ tasks = [i \in TaskIds |-> Idle]
    /\ ops = 0
    /\ SidebarInit
    /\ EditorInit

NextConnect ==
    \/ \E c \in Conns : toggleConnection(c)
    \/ \E i \in TaskIds : toggleConnectionConnected(i)
    \/ \E i \in TaskIds : toggleConnectionLoaded(i)
    \/ \E c \in Conns : handleSwitch(c)
    \/ \E i \in TaskIds : handleSwitchConnected(i)
    \/ \E i \in TaskIds : handleSwitchLoaded(i)
    \/ \E c \in Conns : handleDisconnect(c)
    \/ \E i \in TaskIds : handleDisconnectDone(i)
    \/ Server

SpecConnect == InitConnect /\ [][NextConnect]_vars

\* The table editor with one saved connection.
NextEditor ==
    \/ \E c \in Conns : handleConnectFromList(c)
    \/ \E i \in TaskIds : handleConnectFromListConnected(i)
    \/ \E i \in TaskIds : handleConnectFromListLoaded(i)
    \/ \E d \in Dbs : editorToggleDatabase(d)
    \/ \E i \in TaskIds : editorToggleDatabaseSwitched(i)
    \/ \E i \in TaskIds : editorToggleDatabaseLoaded(i)
    \/ \E d \in Dbs, s \in Schemas : editorToggleSchema(d, s)
    \/ \E i \in TaskIds : editorToggleSchemaSwitched(i)
    \/ \E i \in TaskIds : editorToggleSchemaReloaded(i)
    \/ \E i \in TaskIds : editorToggleSchemaLoaded(i)
    \/ \E d \in Dbs, s \in Schemas, t \in Tables : openTable(d, s, t)
    \/ \E i \in TaskIds : openTableLoaded(i)
    \/ \E s \in Schemas, t \in Tables : closeTab(TabId(s, t))
    \/ \E newPage \in Pages : handlePageChange(newPage)
    \/ \E i \in TaskIds : handlePageChangeLoaded(i)
    \/ \E newSize \in PAGE_SIZE_OPTIONS : handlePageSizeChange(newSize)
    \/ \E i \in TaskIds : handlePageSizeChangeLoaded(i)
    \/ handleSortChange
    \/ \E i \in TaskIds : handleSortChangeLoaded(i)
    \/ handleDeleteRows
    \/ \E i \in TaskIds : refreshTab(i)
    \/ \E i \in TaskIds : refreshTabLoaded(i)
    \/ Server

SpecEditor == Init /\ [][NextEditor]_vars

\* The table editor's explorer with its table nodes and "Delete table".
NextDrop ==
    \/ \E c \in Conns : handleConnectFromList(c)
    \/ \E i \in TaskIds :
          \/ handleConnectFromListConnected(i)
          \/ handleConnectFromListLoaded(i)
          \/ editorToggleSchemaLoaded(i)
          \/ openTableLoaded(i)
          \/ toggleSubCategoryLoaded(i)
          \/ editorHandleDeleteTableDropped(i)
          \/ editorHandleDeleteTableLoaded(i)
    \/ \E d \in Dbs, s \in Schemas :
          \/ editorToggleSchema(d, s)
          \/ \E t \in Tables :
                \/ openTable(d, s, t)
                \/ toggleTable(d, s, t)
                \/ editorHandleDeleteTable(d, s, t)
                \/ \E category \in SubCategories : toggleSubCategory(d, s, t, category)
    \/ \E id \in {TabId(s, t) : s \in Schemas, t \in Tables} : closeTab(id)
    \/ Server

SpecDrop == Init /\ [][NextDrop]_vars

\* The two explorers side by side: the object tree's and the table editor's
\* connection, database and schema nodes.
NextSchema ==
    \/ \E c \in Conns : toggleConnection(c)
    \/ \E c \in Conns : handleConnectFromList(c)
    \/ \E i \in TaskIds :
          \/ toggleConnectionConnected(i)
          \/ toggleConnectionLoaded(i)
          \/ toggleDatabaseSwitched(i)
          \/ toggleDatabaseLoaded(i)
          \/ toggleSchemaSwitched(i)
          \/ toggleSchemaLoaded(i)
          \/ handleConnectFromListConnected(i)
          \/ handleConnectFromListLoaded(i)
          \/ editorToggleDatabaseSwitched(i)
          \/ editorToggleDatabaseLoaded(i)
          \/ editorToggleSchemaSwitched(i)
          \/ editorToggleSchemaReloaded(i)
          \/ editorToggleSchemaLoaded(i)
    \/ \E c \in Conns : \E d \in DbsOf(c) :
          \/ toggleDatabase(c, d)
          \/ \E s \in Schemas : toggleSchema(c, d, s)
    \/ \E d \in Dbs :
          \/ editorToggleDatabase(d)
          \/ \E s \in Schemas : editorToggleSchema(d, s)
    \/ Server

SpecSchema == Init /\ [][NextSchema]_vars

\* The connection store on its own: any sequence of calls of its API.
StoreCall(st) ==
    /\ store' = st
    /\ UNCHANGED <<connections, srv, tasks, ops, sidebarVars, editorVars>>

NextStore ==
    \/ \E id \in Conns : StoreCall(connectTo(store, id))
    \/ \E id \in Conns : StoreCall(disconnectFrom(store, id))
    \/ \E id \in Conns \cup {Null} : StoreCall(setActiveConnection(store, id))
    \/ \E id \in Conns : \E db \in DbsOf(id) \cup {Null} :
          StoreCall(setConnectionActiveDatabase(store, id, db))
    \/ \E id \in Conns : StoreCall(setConnectionDatabases(store, id, Tag(id, ProfileDb(id))))
    \/ \E db \in Dbs : StoreCall(setActiveDatabase(store, db))
    \/ \E id \in Conns : StoreCall(setConnectionSchemas(store, id, Tag(id, ProfileDb(id))))
    \/ \E id \in Conns : \E s \in Schemas :
          StoreCall(setConnectionTables(store, id, s, Tag(id, ProfileDb(id))))
    \/ \E id \in Conns :
          StoreCall(setConnectionSchemaContext(store, id, Tag(id, ProfileDb(id))))
    \/ StoreCall(setDatabases(store, Tag(store.activeConnectionId,
                                         ProfileDb(store.activeConnectionId))))
    \/ StoreCall(setSchemas(store, Tag(store.activeConnectionId,
                                       ProfileDb(store.activeConnectionId))))
    \/ StoreCall(setSchemaContext(store, Tag(store.activeConnectionId,
                                             ProfileDb(store.activeConnectionId))))
    \/ \E s \in Schemas :
          StoreCall(setTables(store, s, Tag(store.activeConnectionId,
                                            ProfileDb(store.activeConnectionId))))
    \/ StoreCall(reset(store))

SpecStore == InitConnect /\ [][NextStore]_vars

\* The DELETE statements built for one displayed row of a table without a
\* primary key, over every row of up to MaxCols columns.
InitPred ==
    /\ connections = {"A"}
    /\ store = StoreInit
    /\ srv = SrvInit
    /\ tasks = [i \in TaskIds |-> Idle]
    /\ ops = 0
    /\ SidebarInit
    /\ tabs = <<>>
    /\ activeTabId = Null
    /\ tree = TreeInit
    /\ executed = {}
    /\ dropped = {}
    /\ \E n \in 0..MaxCols : \E row \in [1..n -> CellValues] :
           grid = [columns |-> [k \in 1..n |-> ColumnName(k)], rows |-> <<row>>]
    /\ deletes = <<>>
    /\ edit = [GridEditInit EXCEPT !.selected = {1}]
    /\ host = HostInit(TableEditorOnSaveEdits)

NextPred ==
    \/ edit.selected # {} /\ handleDelete(selectedIndices)
    \/ handleCopy

SpecPred == InitPred /\ [][NextPred]_vars

\* The data grid as a component: a table of two rows, hosted either as the
\* table editor hosts it or by a host that passes onSaveEdits.
InitGrid ==
    /\ connections = {"A"}
    /\ store = StoreInit
    /\ srv = SrvInit
    /\ tasks = [i \in TaskIds |-> Idle]
    /\ ops = 0
    /\ SidebarInit
    /\ tabs = <<>>
    /\ activeTabId = Null
    /\ tree = TreeInit
    /\ executed = {}
    /\ dropped = {}
    /\ \E rows \in GridSnapshots : grid = [columns |-> GridColumns, rows |-> rows]
    /\ deletes = <<>>
    /\ edit = GridEditInit
    /\ \E onSaveEdits \in {TableEditorOnSaveEdits, TRUE} : host = HostInit(onSaveEdits)

NextGrid ==
    \/ \E idx \in 1..2 : toggleRow(idx)
    \/ \E row \in 1..2, col \in 1..Len(GridColumns) : onDoubleClick(row, col)
    \/ \E row \in 1..2, col \in 1..Len(GridColumns) :
           \E newValue \in CellEditorValues(dataType(col)) : commitEdit(row, col, newValue)
    \/ discardEdits
    \/ saveEdits
    \/ \E ok \in BOOLEAN : saveEditsSettled(ok)
    \/ \E newRows \in GridSnapshots : rowsReplaced(newRows)
    \/ (edit.selected # {} /\ handleDelete(selectedIndices))

SpecGrid == InitGrid /\ [][NextGrid]_vars

\* The tabs of the table editor: connection A is connected on sales and the
\* explorer shows the tables of schema public, orders and customers.
EditorTables == Tables \cup {"customers"}

InitTabs ==
    /\ connections = {"A"}
    /\ store = StoreSwitched(setConnectionActiveDatabase(connectTo(StoreInit, "A"), "A",
                                                         ProfileDb("A")),
                             Tag("A", "sales"), Tag("A", "sales"), Tag("A", "sales"), "sales")
    /\ srv = [SrvInit EXCEPT !.connected = {"A"}]
    /\ tasks = [i \in TaskIds |-> Idle]
    /\ ops = 0
    /\ SidebarInit
    /\ tabs = <<>>
    /\ activeTabId = Null
    /\ tree = [TreeInit EXCEPT
                  !.expandedDatabases = {"sales"},
                  !.expandedSchemas = {<<"sales", "public">>},
                  !.loadedSchemas = Put(@, "sales", Tag("A", "sales")),
                  !.loadedTables = Put(@, <<"sales", "public">>, Tag("A", "sales"))]
    /\ executed = {}
    /\ dropped = {}
    /\ grid = [columns |-> <<>>, rows |-> <<>>]
    /\ deletes = <<>>
    /\ edit = GridEditInit
    /\ host = HostInit(TableEditorOnSaveEdits)

NextTabs ==
    \/ \E d \in Dbs, s \in Schemas, t \in EditorTables :
          \/ openTable(d, s, t)
          \/ editorHandleDeleteTable(d, s, t)
    \/ \E i \in TaskIds :
          \/ openTableLoaded(i)
          \/ editorHandleDeleteTableDropped(i)
          \/ editorHandleDeleteTableLoaded(i)
    \/ \E id \in {TabId(s, t) : s \in Schemas, t \in EditorTables} : closeTab(id)
    \/ Server

SpecTabs == InitTabs /\ [][NextTabs]_vars

\* ------------------------------------------------------------- properties

Quiescent == \A i \in TaskIds : tasks[i].h = "idle"

\* Call k of the handler in slot i is sent to the server by this step.
Issued(i, k) ==
    /\ k \in DOMAIN tasks'[i].aw
    /\ tasks'[i].aw[k].st = "pending"
    /\ ~(k \in DOMAIN tasks[i].aw /\ tasks[i].h = tasks'[i].h)

SwitchInFlight(c) ==
    \E j \in TaskIds :
        /\ tasks[j].c = c
        /\ "switchDatabase" \in DOMAIN tasks[j].aw
        /\ tasks[j].aw["switchDatabase"].st = "pending"

\* C1: a schema list or table list cached in the object tree under
\* (connection, database D) is the result of a fetch the server executed
\* while that connection's current database was D.
C1_CacheKeyedByDatabase ==
    /\ \A k \in DOMAIN treeData.schemas : treeData.schemas[k] = Tag(k[1], k[2])
    /\ \A k \in DOMAIN treeData.tables : treeData.tables[k] = Tag(k[1], k[2])

\* C2: while a switchDatabase for a connection is in flight, no metadata
\* fetch, no executeQuery and no second switchDatabase is issued for it.
C2_SerializedPerConnection ==
    [][\A i \in TaskIds, k \in ReadCalls \cup {"switchDatabase"} :
          Issued(i, k) => ~SwitchInFlight(tasks'[i].c)]_vars

\* C3: once all handlers have finished, the object tree's is_current marker
\* and the store's activeDatabase of a connection both equal the target of
\* the last successful switchDatabase on it.
C3_RecordedCurrentDatabase ==
    \A c \in srv.connected :
        (Quiescent /\ srv.lastSwitch[c] # Null) =>
            /\ CurrentDb(treeData, c) # Null => CurrentDb(treeData, c) = srv.lastSwitch[c]
            /\ c \in DOMAIN store.connectionData =>
                   store.connectionData[c].activeDatabase = srv.lastSwitch[c]

\* C5: no connection's cached data in the store holds the result of a fetch
\* issued for another connection.
C5_ConnectionsIsolated ==
    \A c \in DOMAIN store.connectionData :
        \A f \in {"databases", "schemas", "schemaContext"} :
            store.connectionData[c][f].c \notin Conns \ {c}

\* C6: at most one fetch is outstanding for one tree node.
C6_SingleFetchPerNode ==
    \A i, j \in TaskIds :
        (/\ i # j
         /\ tasks[i].h = tasks[j].h
         /\ tasks[i].h \in {"toggleDatabase", "toggleSchema"}
         /\ <<tasks[i].c, tasks[i].d, tasks[i].s>> = <<tasks[j].c, tasks[j].d, tasks[j].s>>)
        => ~(\E k \in {"getSchemas", "getTables"} :
                k \in DOMAIN tasks[i].aw /\ k \in DOMAIN tasks[j].aw)

\* C8: activeConnectionId is null or a member of connectedIds.
C8_ActiveIsConnected ==
    store.activeConnectionId = Null \/ includes(store.connectedIds, store.activeConnectionId)

\* C4: every row DELETE sent from a table tab is executed on the connection
\* and database that the tab's rows were fetched from.
C4_DeleteRunsOnSnapshotDatabase ==
    \A e \in executed : e.on = e.snap

\* C7: when no handler is suspended, the rows a tab displays are the page the
\* tab's current page, page size and sort ask for.
C7_DisplayedRowsMatchView ==
    \A n \in 1..Len(tabs) :
        (Quiescent /\ ~tabs[n].loading /\ ~tabs[n].error /\ tabs[n].data # NoData) =>
            /\ tabs[n].data.limit = tabs[n].pageSize
            /\ tabs[n].data.offset = tabs[n].page * tabs[n].pageSize
            /\ tabs[n].data.sort = tabs[n].sort

AllNull(row) == \A n \in 1..Len(row) : row[n].t = "null"

\* C9: every DELETE handed to executeQuery has a non-empty row predicate, and
\* the DELETE for a row whose every column is NULL is dispatched with one
\* IS NULL clause per column.
C9_PredicateNeverEmpty ==
    \A k \in 1..Len(deletes) :
        /\ Len(deletes[k].where) > 0
        /\ AllNull(deletes[k].row) =>
               /\ Len(deletes[k].where) = Len(deletes[k].row)
               /\ \A n \in 1..Len(deletes[k].where) : deletes[k].where[n].op = "IS NULL"

C9_AllNullRowDispatched ==
    /\ Len(grid.columns) > 0
    /\ AllNull(grid.rows[1])
    /\ Len(deletes) = 1
    /\ Len(deletes[1].where) = Len(grid.columns)

\* C9 as stated: deleting a row whose every column is NULL issues no statement.
C9_AllNullRowRejected ==
    (Len(grid.columns) > 0 /\ AllNull(grid.rows[1])) => deletes = <<>>

\* C10: the delete predicate has exactly one clause per column, in column
\* order: "col" IS NULL where the value is NULL, and otherwise "col" = literal,
\* the literal being the bare text of a number or boolean and the quoted text,
\* single quotes doubled, of anything else.
C10_OneClausePerColumn ==
    \A k \in 1..Len(deletes) :
        LET row == deletes[k].row
            where == deletes[k].where
        IN /\ Len(where) = Len(row)
           /\ \A n \in 1..Len(row) :
                  /\ where[n].col = grid.columns[n]
                  /\ (row[n].t = "null") <=> (where[n].op = "IS NULL")
                  /\ (row[n].t # "null") <=> (where[n].op = "=")
                  /\ row[n].t \in {"number", "boolean"} => where[n].rhs = row[n].v
                  /\ row[n].t = "string" =>
                         /\ Len(where[n].rhs) = Len(row[n].v) + 2
                         /\ where[n].rhs[1] = "'" /\ where[n].rhs[Len(where[n].rhs)] = "'"
                         /\ \A j \in 1..Len(row[n].v) :
                                where[n].rhs[j + 1] = IF row[n].v[j] = "'" THEN "''"
                                                      ELSE row[n].v[j]

\* The row (created_at = "2024-01-01", note = NULL) has been deleted.
C10_ExampleRowDeleted ==
    /\ grid.columns = <<"created_at", "note">>
    /\ grid.rows[1] = <<Cell("string", <<"2024-01-01">>), Cell("null", <<>>)>>
    /\ Len(deletes) = 1
    /\ deletes[1].where[2].op = "IS NULL"

\* C10 as stated: the predicate has a clause only for the non-null columns,
\* and none of its clauses is an IS NULL clause.
C10_NullColumnsExcluded ==
    \A k \in 1..Len(deletes) :
        /\ Len(deletes[k].where) =
               Cardinality({n \in 1..Len(deletes[k].row) : deletes[k].row[n].t # "null"})
        /\ \A n \in 1..Len(deletes[k].where) : deletes[k].where[n].op # "IS NULL"

\* C11: the cells of a table shown by the table editor can be edited, and
\* committing the pending edits produces one mutation for each edited row (an
\* UPDATE whose predicate is the row's primary key as fetched and whose SET
\* names the edited columns), so every commit handed on concerns one row.
C11_CommitUpdatesEachRow ==
    /\ Len(grid.rows) > 0 => canEdit
    /\ host.call.st # "none" => Cardinality({e.rowIdx : e \in host.call.edits}) = 1


\* C12: once a table has been dropped and the handlers have settled, no cached
\* list of its schema names it, no columns, indexes or other sub-category entry
\* is kept for it, and no tab shows it.
C12_DropLeavesNoTrace ==
    \A x \in dropped :
        (\A i \in TaskIds : tasks[i].h = "idle") =>
            /\ \A k \in DOMAIN tree.loadedTables :
                   (tree.loadedTables[k].c = x.c /\ tree.loadedTables[k].d = x.d
                        /\ k[2] = x.s)
                   => ~ListsTable(tree.loadedTables[k], x.t)
            /\ \A k \in DOMAIN tree.loadedCategories :
                   ~(tree.loadedCategories[k].c = x.c /\ tree.loadedCategories[k].d = x.d
                        /\ k[3] = x.s /\ k[4] = x.t)
            /\ \A n \in 1..Len(tabs) :
                   ~(tabs[n].schema = x.s /\ tabs[n].table = x.t
                        /\ tabs[n].data.c = x.c /\ tabs[n].data.d = x.d)


\* The click of this step expands database d of connection c in the object tree.
Expanding(c, d) == <<c, d>> \notin expanded.databases /\ <<c, d>> \in expanded'.databases

\* C13: with no handler in flight, expanding a database other than the one the
\* connection's session is on issues switchDatabase; toggleDatabase goes on to
\* getSchemas only after its switch succeeded; when the switch fails the handler
\* ends without getSchemas, records the error under the expanded node only and
\* leaves the cached nodes, the expansion state and the store as they were.
C13_SwitchBeforeSchemas ==
    [][/\ \A c \in Conns : \A d \in DbsOf(c) :
              (Expanding(c, d) /\ Quiescent /\ c \in srv.connected /\ srv.db[c] # d)
              => \E i \in TaskIds : /\ Issued(i, "switchDatabase")
                                     /\ tasks'[i].h = "toggleDatabase"
       /\ \A i \in TaskIds :
              (Issued(i, "getSchemas") /\ tasks[i].h = "toggleDatabase")
              => tasks[i].aw["switchDatabase"].st = "ok"
       /\ \A i \in TaskIds :
              (/\ tasks[i].h = "toggleDatabase"
               /\ "switchDatabase" \in DOMAIN tasks[i].aw
               /\ tasks[i].aw["switchDatabase"].st = "err"
               /\ tasks'[i] # tasks[i])
              => /\ tasks'[i] = Idle
                 /\ errors' = [errors EXCEPT !.databases =
                                   @ \cup {<<tasks[i].c, tasks[i].d>>}]
                 /\ treeData' = treeData /\ expanded' = expanded /\ store' = store]_vars


\* C14: a click that expands a schema in either explorer leads to a getTables
\* call only if the schema's table list was not loaded when the click was
\* handled, so collapsing and re-expanding a loaded schema fetches nothing; an
\* expansion that finds no list and needs no switch issues exactly one call.
C14_LoadedListNotRefetched ==
    [][/\ \A i \in TaskIds :
              (Issued(i, "getTables") /\ tasks'[i].h = "toggleSchema")
              => IF tasks[i].h = "idle"
                 THEN <<tasks'[i].c, tasks'[i].d, tasks'[i].s>> \notin DOMAIN treeData.tables
                 ELSE ~tasks[i].cl.had
       /\ \A i \in TaskIds :
              (Issued(i, "getTables") /\ tasks'[i].h = "editorToggleSchema")
              => IF tasks[i].h = "idle"
                 THEN <<tasks'[i].d, tasks'[i].s>> \notin DOMAIN tree.loadedTables
                 ELSE ~tasks[i].cl.had
       /\ \A c \in Conns : \A d \in DbsOf(c), s \in Schemas :
              (/\ <<c, d, s>> \notin expanded.schemas
               /\ <<c, d, s>> \in expanded'.schemas
               /\ <<c, d, s>> \notin DOMAIN treeData.tables
               /\ ~NeedsSwitch(c, d))
              => Cardinality({i \in TaskIds : Issued(i, "getTables")}) = 1]_vars

\* A loaded schema of the table editor was collapsed and is being re-expanded
\* from another database: the handler in flight will not fetch its tables.
C14_ReexpandingLoaded ==
    \E i \in TaskIds :
        /\ tasks[i].h = "editorToggleSchema"
        /\ tasks[i].cl.had
        /\ <<tasks[i].d, tasks[i].s>> \in DOMAIN tree.loadedTables


\* C15: once the handlers have settled, a connection that is not connected has
\* no cached catalog data left in the client: no connectionData entry in the
\* store and no databases, schemas or tables entry in the object tree.
C15_DisconnectDropsCache ==
    \A c \in Conns :
        (Quiescent /\ ~includes(store.connectedIds, c))
        => /\ c \notin DOMAIN store.connectionData
           /\ c \notin DOMAIN treeData.databases
           /\ \A k \in DOMAIN treeData.schemas : k[1] # c
           /\ \A k \in DOMAIN treeData.tables : k[1] # c


C17_ConnectRecordsDatabase ==
    /\ [][\A i \in TaskIds :
              (/\ "connect" \in DOMAIN tasks[i].aw
               /\ tasks[i].aw["connect"].st = "err"
               /\ tasks'[i] # tasks[i])
              => store' = store]_vars
    /\ [](\A c \in Conns :
              (Quiescent /\ includes(store.connectedIds, c))
              => /\ c \in DOMAIN store.connectionData
                 /\ store.connectionData[c].activeDatabase \in {srv.db[c], ProfileDb(c)})


C19_NoNoopEdits ==
    \A key \in DOMAIN edit.editedCells :
        edit.editedCells[key] # grid.rows[key[1]][key[2]]

\* A cell with a pending entry was set back to its original value, and the
\* buffer is not dirty.
C19_RevertedEditRemoved == host.reverted /\ ~hasEdits /\ host.epoch = 0


\* C20: whenever the rows a grid shows are replaced, the step leaves no
\* pending cell edit, no cell editor and no selected row behind.
C20_ReplacedRowsResetEdits ==
    [][host'.epoch # host.epoch
       => /\ edit'.selected = {}
          /\ edit'.editedCells = NoEdits
          /\ edit'.editingCell = NoCell]_vars

\* The rows were replaced while rows were selected and edits were pending, and
\* neither is left.
C20_SelectionAndEditsDiscarded ==
    host.discarded /\ host.epoch > 0 /\ edit.selected = {} /\ ~hasEdits


\* C21: a Discard step leaves the edit buffer empty, no cell editor and no save
\* error; it hands nothing to the host's commit callback, issues no statement
\* or server call, and the rows shown are the rows that were shown.
C21_DiscardOnlyClearsEdits ==
    [][discardEdits
       => /\ edit'.editedCells = NoEdits
          /\ edit'.editingCell = NoCell
          /\ ~edit'.saveError
          /\ grid' = grid
          /\ host'.call = host.call
          /\ deletes' = deletes
          /\ executed' = executed
          /\ tasks' = tasks
          /\ srv' = srv]_vars

\* A commit failed, its error was shown with the edits still pending, and the
\* edits were then discarded: neither the edits nor the error are left.
C21_DiscardedAfterFailedSave ==
    /\ host.call.st = "err"
    /\ host.epoch = 0
    /\ ~hasEdits
    /\ ~edit.saveError
    /\ ~edit.isSaving


\* C22: with no other handler in flight, a handler of the object tree that
\* acts on database D of a connected connection issues switchDatabase in its
\* first step exactly when D is not the database the connection's session is
\* on: never for the session's own database, always for another one.
C22_SwitchIffDifferent ==
    [][\A i \in TaskIds :
          (/\ Quiescent
           /\ tasks'[i].h \in {"toggleDatabase", "toggleSchema", "handleTableClick",
                               "handleCountRows"}
           /\ tasks'[i].c \in srv.connected)
          => (Issued(i, "switchDatabase") <=> srv.db[tasks'[i].c] # tasks'[i].d)]_vars


\* C23: on a connection whose session was never switched (an error recorded
\* under a database or schema node is then the failure of that node's catalog
\* fetch, and it stays recorded until Refresh), no getSchemas is issued for a
\* database node and no getTables for a schema node while an error is recorded
\* under the node.
C23_NoRefetchAfterFailure ==
    [][\A i \in TaskIds :
          LET c == tasks'[i].c
              d == tasks'[i].d
          IN (c \in Conns /\ srv.lastSwitch[c] = Null /\ d = srv.db[c])
             => /\ (Issued(i, "getSchemas") /\ tasks'[i].h = "toggleDatabase")
                   => <<c, d>> \notin errors.databases
                /\ (Issued(i, "getTables") /\ tasks'[i].h = "toggleSchema")
                   => <<c, d, tasks'[i].s>> \notin errors.schemas]_vars


\* lit is text between single quotes, each single quote of the text doubled.
Quoted(lit, text) ==
    /\ Len(lit) = Len(text) + 2
    /\ lit[1] = "'"
    /\ lit[Len(lit)] = "'"
    /\ \A j \in 1..Len(text) :
           /\ lit[j + 1] # "'"
           /\ lit[j + 1] = (IF text[j] = "'" THEN "''" ELSE text[j])

\* C24: in every DELETE predicate and every exported INSERT, a null cell is
\* encoded as IS NULL (as the literal NULL in the INSERT), a number or boolean
\* as its bare text, and any other cell as its text (the JSON text of an
\* object) between single quotes with every single quote doubled, so that no
\* single quote stands alone between the quotes.
C24_ValueEncoding ==
    /\ \A k \in 1..Len(deletes) : \A n \in 1..Len(deletes[k].row) :
           LET val == deletes[k].row[n]
               clause == deletes[k].where[n]
           IN IF val.t = "null" THEN clause.op = "IS NULL" /\ clause.rhs = <<>>
              ELSE /\ clause.op = "="
                   /\ IF val.t \in {"number", "boolean"} THEN clause.rhs = val.v
                      ELSE Quoted(clause.rhs, val.v)
    /\ \A k \in 1..Len(host.clipboard) : \A n \in 1..Len(host.clipboard[k].row) :
           LET val == host.clipboard[k].row[n]
               lit == host.clipboard[k].vals[n]
           IN IF val.t = "null" THEN lit = <<"NULL">>
              ELSE IF val.t \in {"number", "boolean"} THEN lit = val.v
              ELSE Quoted(lit, val.v)

\* A row holding NULL, a string with a single quote and an object whose JSON
\* text has a single quote was copied as SQL and then deleted.
C24_QuotedRowEncoded ==
    /\ Len(deletes) = 1
    /\ Len(host.clipboard) = 1
    /\ deletes[1].row = <<Cell("null", <<>>), Cell("string", <<"O", "'", "Neil">>),
                          Cell("object", <<"{\"by\":\"O", "'", "Neil\"}">>)>>
    /\ host.clipboard[1].row = deletes[1].row


\* C25: in every state of the store the connections that have a data record
\* are exactly the connected ones, and no id occurs twice in connectedIds.
C25_OneRecordPerConnection ==
    /\ DOMAIN store.connectionData = Range(store.connectedIds)
    /\ \A i, j \in 1..Len(store.connectedIds) :
           i # j => store.connectedIds[i] # store.connectedIds[j]

\* Two connections are connected, one was connected a second time, and data
\* has been delivered for both.
C25_BothConnectedWithData ==
    /\ Len(store.connectedIds) = 2
    /\ store.activeConnectionId = store.connectedIds[1]
    /\ \A c \in Conns : /\ c \in DOMAIN store.connectionData
                        /\ store.connectionData[c].databases # EmptyTag


\* C26: in every state of the store, each per-connection setter called for an
\* id that is not connected returns the store as it is, and so does each
\* active-connection setter while no connection is active.
C26_LateResultIgnored ==
    /\ \A id \in Conns : \A v \in {Tag(id, d) : d \in Dbs} :
           ~includes(store.connectedIds, id)
           => /\ setConnectionDatabases(store, id, v) = store
              /\ setConnectionActiveDatabase(store, id, v.d) = store
              /\ setConnectionSchemas(store, id, v) = store
              /\ setConnectionSchemaContext(store, id, v) = store
              /\ \A s \in Schemas : setConnectionTables(store, id, s, v) = store
    /\ \A v \in {Tag(c, d) : c \in Conns, d \in Dbs} :
           store.activeConnectionId = Null
           => /\ setDatabases(store, v) = store
              /\ setActiveDatabase(store, v.d) = store
              /\ setSchemas(store, v) = store
              /\ setSchemaContext(store, v) = store
              /\ \A s \in Schemas : setTables(store, s, v) = store

\* A connection has no session (the store keeps no trace of a disconnected
\* one) while the active one is connected and holds data: a result arriving
\* now for the former changes nothing.
C26_DisconnectedWhileOtherLoaded ==
    \E id \in Conns :
        /\ ~includes(store.connectedIds, id)
        /\ store.activeConnectionId \in DOMAIN store.connectionData
        /\ store.connectionData[store.activeConnectionId].databases # EmptyTag
        /\ setConnectionDatabases(store, id, Tag(id, ProfileDb(id))) = store


\* C27: in every state of the store and for every id, disconnectFrom(id) makes
\* the first of the other connected ids active (null when there is none) if id
\* was active, leaves activeConnectionId alone otherwise, and keeps the data
\* record of every other connection; connectTo of a connected id changes
\* activeConnectionId only.
C27_DisconnectPicksFirstRemaining ==
    \A id \in Conns :
        LET ids == store.connectedIds
            others == {i \in 1..Len(ids) : ids[i] # id}
            after == disconnectFrom(store, id)
        IN /\ store.activeConnectionId = id
              => after.activeConnectionId =
                     IF others = {} THEN Null
                     ELSE ids[CHOOSE i \in others : \A j \in others : i <= j]
           /\ store.activeConnectionId # id
              => after.activeConnectionId = store.activeConnectionId
           /\ \A c \in DOMAIN store.connectionData \ {id} :
                  /\ c \in DOMAIN after.connectionData
                  /\ after.connectionData[c] = store.connectionData[c]
           /\ includes(ids, id)
              => connectTo(store, id) = [store EXCEPT !.activeConnectionId = id]

\* The connection connected first is active and holds data while a second one
\* is connected: disconnecting it makes the second one active.
C27_ActiveFirstOfTwo ==
    /\ Len(store.connectedIds) = 2
    /\ store.activeConnectionId = store.connectedIds[1]
    /\ store.connectionData[store.connectedIds[2]].schemas # EmptyTag
    /\ disconnectFrom(store, store.connectedIds[1]).activeConnectionId
           = store.connectedIds[2]
    /\ connectTo(store, store.connectedIds[2]).connectionData = store.connectionData


ExplorerReady ==
    /\ Quiescent
    /\ tabs = <<>>
    /\ dropped = {}
    /\ EditorTableShown("sales", "public", "orders")

\* C30: the active tab is always null or a tab of the list, no two tabs of the
\* list share an id, and openTable sends its data fetch only for a table that
\* has no tab.
C30_TabsConsistent ==
    /\ [](IF ToString(activeTabId) = ToString(Null) THEN TRUE
          ELSE HasTab(tabs, activeTabId))
    /\ [](\A m, n \in 1..Len(tabs) : m # n => tabs[m].id # tabs[n].id)
    /\ [][\A i \in TaskIds :
              (Issued(i, "getTableData") /\ tasks'[i].h = "openTable")
              => ~HasTab(tabs, tasks'[i].cl.id)]_vars

=============================================================================
